---------------------------- MODULE Spec2Model ----------------------------
(***************************************************************************)
(* A model of glutin's X11 window backend (src/x11/window/mod.rs):         *)
(*                                                                         *)
(*   - the event pump: PollEventsIterator::next and                        *)
(*     WaitEventsIterator::next over the Xlib event queue, the pending     *)
(*     queue, the closed flag and the cached size        (specification    *)
(*     Spec);                                                              *)
(*   - WindowProxy::wakeup_event_loop against XWindow::drop                *)
(*     (specification SpecLife) and against a thread that keeps pumping,   *)
(*     under fair scheduling (specification SpecWake);                     *)
(*   - Window::set_cursor_state              (specification SpecCursor);   *)
(*   - Window::new                           (specification SpecNew).      *)
(*                                                                         *)
(* Fields written "ghost" are not program state: they record where an      *)
(* event came from or what a call did, so that properties can speak of it. *)
(***************************************************************************)
EXTENDS Integers, Sequences, FiniteSets, TLC

(***************************************************************************)
(* Bounds of the model.                                                    *)
(***************************************************************************)
\* native events the X server delivers on its own during one run
MaxNative == 3
\* wakeup_event_loop calls during one run
MaxWakes == 2
\* longest text one Xutf8LookupString call decodes (the buffer holds 16 bytes)
MaxChars == 2
\* highest pointer button code the server reports
MaxButton == 6
\* set_cursor_state calls during one run
MaxCursorCalls == 3
\* WindowProxy handles alive at one time
MaxProxies == 3

(***************************************************************************)
(* Program constants.                                                      *)
(***************************************************************************)
\* the atom XInternAtom returns for "WM_DELETE_WINDOW" (atoms are never 0)
WmDeleteWindow == 5
\* mem::zeroed() payload of the message wakeup_event_loop sends
ZeroedData == 0
ffi_Button1 == 1
ffi_Button2 == 2
ffi_Button3 == 3
ffi_Button4 == 4
ffi_Button5 == 5

PumpThreads == {1, 2}
Wakers == {"w1", "w2"}
CursorThreads == {"c1", "c2"}
NewThreads == {"n1", "n2"}

VARIABLES
    \* ---- the X connection --------------------------------------------
    natq,          \* Xlib's event queue of the connection, oldest first
    outbuf,        \* Xlib's output buffer: requests not yet flushed
    wire,          \* client messages the server has still to deliver
    nArrived,      \* ghost: events that have entered natq so far
    taken,         \* ghost: the events taken out of natq, in the order taken
    nInjected,     \* ghost: events the server sent on its own so far
    scenario,      \* ghost: the classes of native events this run draws from
    \* ---- struct Window ------------------------------------------------
    is_closed,     \* Window.is_closed
    current_size,  \* Window.current_size
    pending,       \* Window.pending_events
    \* ---- a thread inside PollEventsIterator / WaitEventsIterator ------
    pc,            \* per pump thread: its place in next()
    xev,           \* per pump thread: the native event it took
    seen_size,     \* per pump thread: (current_width, current_height) it read
    ret,           \* per pump thread: what its last next() returned
    call,          \* ghost, per pump thread: what its current/last call did
    delivered,     \* ghost: the events next() returned, in order
    \* ---- WindowProxy / XWindow ---------------------------------------
    target,        \* the Option<WindowProxyData> behind Arc<Mutex<..>>
    plock,         \* holder of that mutex: a waker, "drop" or "free"
    wpc,           \* per waker: its place in wakeup_event_loop
    nWakes,        \* ghost: wakeup_event_loop calls started so far
    dpc,           \* XWindow::drop: number of its steps done
    is_fullscreen, \* XWindow.is_fullscreen
    x_refs,        \* strong count of the Arc<XWindow> (Window.x holds one)
    proxies,       \* the WindowProxy handles alive, made by create_window_proxy
                   \* or clone() during the run
    released,      \* ghost: native resources released so far, in order
    xcalls,        \* ghost: Xlib calls made by wakers, with what was live
    \* ---- Window.cursor_state and the pointer -------------------------
    cursor_state,    \* the CursorState inside the Mutex
    cursor_lock,     \* holder of Window.cursor_state's mutex, or "free"
    cursor_poisoned, \* the mutex is poisoned: a holder panicked
    pointer_grabbed, \* the server has the pointer grabbed for this client
    cpc,             \* per cursor thread: its place in set_cursor_state
    ccall,           \* ghost, per cursor thread: its call in progress
    chist,           \* ghost: the set_cursor_state calls that have ended
    \* ---- Window::new ---------------------------------------------------
    once,          \* THREAD_INIT: "new", "running" or "done"
    imlock,        \* holder of GLOBAL_XOPENIM_LOCK, or "free"
    npc,           \* per constructing thread: its place in Window::new
    builder,       \* per constructing thread: the BuilderAttribs it was given
    modes,         \* per constructing thread: the mode lines the server listed
    best_mode,     \* per constructing thread: best_mode
    extra,         \* per constructing thread: the extensions load_with found
    swap,          \* per constructing thread: swap, as QueryDrawable left it
    held,          \* per constructing thread: what its call has acquired
    nlog,          \* ghost, per constructing thread: native calls it made
    nresult        \* per constructing thread: what Window::new returned

connVars == <<natq, outbuf, wire, nArrived, taken, nInjected, scenario>>
winVars == <<is_closed, current_size, pending>>
pumpVars == <<pc, xev, seen_size, ret, call, delivered>>
lifeVars ==
    <<target, plock, wpc, nWakes, dpc, is_fullscreen, x_refs, proxies, released,
      xcalls>>
cursorVars ==
    <<cursor_state, cursor_lock, cursor_poisoned, pointer_grabbed, cpc, ccall, chist>>
ctorVars ==
    <<once, imlock, npc, builder, modes, best_mode, extra, swap, held, nlog,
      nresult>>
vars == <<connVars, winVars, pumpVars, lifeVars, cursorVars, ctorVars>>

(***************************************************************************)
(* Native events.  Every record in natq also carries the ghost field id,   *)
(* its arrival number.                                                     *)
(***************************************************************************)
\* what Xutf8LookupString may leave in the 16-byte buffer: 0..MaxChars ASCII
\* bytes, or one byte that is no UTF-8
AsciiText(n) == [i \in 1..n |-> 96 + i]
BadUtf8 == <<255>>
Buffers == {AsciiText(n) : n \in 0..MaxChars} \cup {BadUtf8}

Sizes == {<<0, 0>>, <<1, 1>>, <<1, 2>>}

ClassEvents(c) ==
    CASE c = "misc" ->
            {[type |-> "KeymapNotify"], [type |-> "VisibilityNotify"],
             [type |-> "MappingNotify"]}
      [] c = "client" ->
            {[type |-> "ClientMessage", data0 |-> d, wake |-> 0] :
                d \in {WmDeleteWindow, WmDeleteWindow + 1}}
      [] c = "mapping" ->
            {[type |-> "MappingNotify"]}
      [] c = "configure" ->
            {[type |-> "ConfigureNotify", width |-> s[1], height |-> s[2]] :
                s \in Sizes}
      [] c = "paint" ->
            {[type |-> "Expose"], [type |-> "MotionNotify", x |-> 3, y |-> 4]}
      [] c = "key" ->
            {[type |-> "KeyPress", keycode |-> 38, buffer |-> b] : b \in Buffers}
            \cup {[type |-> "KeyRelease", keycode |-> 38, buffer |-> AsciiText(n)] :
                     n \in 0..1}
      [] c = "press" ->
            {[type |-> "ButtonPress", button |-> b] : b \in 1..MaxButton}
      [] c = "release" ->
            {[type |-> "ButtonRelease", button |-> b] : b \in 1..MaxButton}
      [] c = "wheel" ->
            {[type |-> "ButtonPress", button |-> b] : b \in {1, 4, 5}}
      [] OTHER -> {}

\* the mixes of event classes a run may draw from; "wake" lets a proxy wake the
\* event loop
Scenarios ==
    { {"configure", "misc"},
      {"press"},
      {"release"},
      {"key", "wheel"},
      {"client", "wheel"},
      {"client", "paint", "misc"},
      {"client", "mapping", "wake"} }

\* the event types with a bit in the event mask: XCheckMaskEvent(display, -1)
\* returns these and no others
MaskedTypes ==
    {"KeymapNotify", "VisibilityNotify", "ConfigureNotify", "Expose",
     "MotionNotify", "KeyPress", "KeyRelease", "ButtonPress", "ButtonRelease"}

\* XCheckTypedEvent(display, ClientMessage) returns these
ClientMessageType == {"ClientMessage"}

\* the index of the first event of q whose type is in types, 0 when there is none
FirstIndex(q, types) ==
    IF \E i \in 1..Len(q) : q[i].type \in types
    THEN CHOOSE i \in 1..Len(q) :
             q[i].type \in types /\ \A j \in 1..(i - 1) : q[j].type \notin types
    ELSE 0

RemoveAt(q, i) == SubSeq(q, 1, i - 1) \o SubSeq(q, i + 1, Len(q))

(***************************************************************************)
(* Portable events.  src is ghost: the arrival number of the native event  *)
(* the portable event was made from.                                       *)
(***************************************************************************)
NoEvent == [ev |-> "None"]
Closed(src) == [ev |-> "Closed", src |-> src]
Awakened(src) == [ev |-> "Awakened", src |-> src]
Resized(w, h, src) == [ev |-> "Resized", w |-> w, h |-> h, src |-> src]
Refresh(src) == [ev |-> "Refresh", src |-> src]
MouseMoved(x, y, src) == [ev |-> "MouseMoved", x |-> x, y |-> y, src |-> src]
KeyboardInput(st, raw, vkey, src) ==
    [ev |-> "KeyboardInput", state |-> st, raw |-> raw, vkey |-> vkey, src |-> src]
ReceivedCharacter(chr, src) == [ev |-> "ReceivedCharacter", chr |-> chr, src |-> src]
MouseInput(st, button, src) ==
    [ev |-> "MouseInput", state |-> st, button |-> button, src |-> src]
MouseWheel(dy, src) == [ev |-> "MouseWheel", dx |-> 0, dy |-> dy, src |-> src]

(***************************************************************************)
(* The per-event mapping rules of PollEventsIterator::next, as the         *)
(* functions the match arms compute.                                       *)
(***************************************************************************)
\* a slip: the payload is compared with 0 instead of the close atom
IsCloseMessage_zeroAtom(msg) == msg.data0 = ZeroedData

\* client_msg.data.get_long(0) == self.window.wm_delete_window
IsCloseMessage(msg) == msg.data0 = WmDeleteWindow

\* a slip: only the width is compared
SizeDiffers_widthOnly(size, cfg) == size[1] # cfg.width

\* current_width != cfg_event.width || current_height != cfg_event.height
SizeDiffers(size, cfg) == size[1] # cfg.width \/ size[2] # cfg.height

\* `as u32` of cfg_event.width / height: the protocol carries them as CARD16,
\* so the c_int is within 0..65535 and the cast keeps its value
AsU32(n) == n % 65536

\* `as u8` of the keycode
AsU8(n) == n % 256

\* if xev.get_type() == KeyPress / ButtonPress { Pressed } else { Released }
ElementState(type) ==
    IF type \in {"KeyPress", "ButtonPress"} THEN "Pressed" ELSE "Released"

\* str::from_utf8 accepts the ASCII bytes the model writes and no byte >= 128
IsUtf8(bytes) == \A i \in 1..Len(bytes) : bytes[i] < 128

\* str::from_utf8(&buffer[..count]).unwrap_or("").to_string(), then .chars():
\* one char per ASCII byte
Written(bytes) == IF IsUtf8(bytes) THEN bytes ELSE <<>>

\* a slip: the characters are pushed last first
CharEvents_reversed(bytes, src) ==
    [i \in 1..Len(Written(bytes)) |->
        ReceivedCharacter(Written(bytes)[Len(Written(bytes)) + 1 - i], src)]

\* the ReceivedCharacter events pushed for one key record, in decode order
CharEvents(bytes, src) ==
    [i \in 1..Len(Written(bytes)) |-> ReceivedCharacter(Written(bytes)[i], src)]

\* XKeycodeToKeysym(display, keycode, 0) under the server's keyboard mapping:
\* keycode 38 is the key "a" (keysym 0x61), an unmapped keycode gives NoSymbol
XKeycodeToKeysym(keycode) == IF keycode = 38 THEN 97 ELSE 0

\* events::keycode_to_element: the lookup table from keysyms to virtual keys
keycode_to_element(keysym) == IF keysym = 97 THEN "A" ELSE "None"

\* a slip: every other button code is taken for the middle button
ButtonOf_otherIsMiddle(button) ==
    CASE button = ffi_Button1 -> "Left"
      [] button = ffi_Button3 -> "Right"
      [] OTHER -> "Middle"

\* match event.button { Button1 => Some(Left), .. , _ => None }
ButtonOf(button) ==
    CASE button = ffi_Button1 -> "Left"
      [] button = ffi_Button2 -> "Middle"
      [] button = ffi_Button3 -> "Right"
      [] OTHER -> "None"

\* a slip: both scroll buttons push the same delta
WheelEvents_sameSign(button, src) ==
    IF button \in {ffi_Button4, ffi_Button5} THEN <<MouseWheel(1, src)>> ELSE <<>>

\* the MouseWheel events the Button4 / Button5 arms push: LineDelta(0.0, +-1.0)
WheelEvents(button, src) ==
    CASE button = ffi_Button4 -> <<MouseWheel(1, src)>>
      [] button = ffi_Button5 -> <<MouseWheel(-1, src)>>
      [] OTHER -> <<>>

\* a slip: the loop does not look at the closed flag
WaitLoopCondition_always == TRUE

\* while !self.window.is_closed()
WaitLoopCondition == ~is_closed

(***************************************************************************)
(* The initial state: the Window as Window::new returns it, with no call   *)
(* of set_cursor_state or Window::new in progress.                         *)
(***************************************************************************)
NoXev == [type |-> "none", id |-> 0]
NoCursorCall == [req |-> "none", before |-> "none", natives |-> <<>>]
NoDimensions == <<>>
NoBuilder ==
    [monitor |-> "None", dimensions |-> NoDimensions, vsync |-> FALSE,
     strict |-> FALSE, gl_version |-> "Latest"]
NoResult == [tag |-> "none", msg |-> ""]
NoCall == [mode |-> "none", closedAtStart |-> FALSE, reads |-> 0, peeked |-> FALSE]
NewCall(mode) == [mode |-> mode, closedAtStart |-> is_closed, reads |-> 0, peeked |-> FALSE]

\* a slip: the connection is closed before the resources that live on it
ReleaseOrder_displayFirst ==
    <<"display", "context", "mode", "ic", "im", "window", "colormap">>

\* the steps of XWindow::drop after the proxy target is revoked, in order
ReleaseOrder ==
    <<"context", "mode", "ic", "im", "window", "colormap", "display">>

InitWindow ==
    /\ natq = <<>> /\ outbuf = <<>> /\ wire = <<>>
    /\ nArrived = 0 /\ nInjected = 0 /\ taken = <<>>
    /\ is_closed = FALSE
    /\ current_size = <<0, 0>>
    /\ pending = <<>>
    /\ pc = [t \in PumpThreads |-> "idle"]
    /\ xev = [t \in PumpThreads |-> NoXev]
    /\ seen_size = [t \in PumpThreads |-> <<0, 0>>]
    /\ ret = [t \in PumpThreads |-> NoEvent]
    /\ call = [t \in PumpThreads |-> NoCall]
    /\ delivered = <<>>
    /\ plock = "free"
    /\ wpc = [p \in Wakers |-> "idle"]
    /\ nWakes = 0
    /\ dpc = 0
    /\ proxies = {}
    /\ released = <<>>
    /\ xcalls = <<>>
    /\ cursor_state = "Normal"
    /\ cursor_lock = "free"
    /\ cursor_poisoned = FALSE
    /\ pointer_grabbed = FALSE
    /\ cpc = [c \in CursorThreads |-> "idle"]
    /\ ccall = [c \in CursorThreads |-> NoCursorCall]
    /\ chist = <<>>
    /\ imlock = "free"
    /\ npc = [t \in NewThreads |-> "idle"]
    /\ builder = [t \in NewThreads |-> NoBuilder]
    /\ modes = [t \in NewThreads |-> <<>>]
    /\ best_mode = [t \in NewThreads |-> -1]
    /\ extra = [t \in NewThreads |-> {}]
    /\ swap = [t \in NewThreads |-> 0]
    /\ held = [t \in NewThreads |-> {}]
    /\ nlog = [t \in NewThreads |-> <<>>]
    /\ nresult = [t \in NewThreads |-> NoResult]

\* a Window exists: its constructor ran ensure_thread_init and made the target
Constructed ==
    /\ once = "done"
    /\ target = "Some"
    /\ x_refs = 1

Init ==
    /\ InitWindow
    /\ Constructed
    /\ scenario \in Scenarios
    /\ is_fullscreen = FALSE

\* the Window has not been dropped: &Window can be borrowed
Alive == dpc = 0

(***************************************************************************)
(* The X server.                                                           *)
(***************************************************************************)
Arrive(e) ==
    /\ natq' = Append(natq, [id |-> nArrived + 1] @@ e)
    /\ nArrived' = nArrived + 1

\* the server reports an input or window event, or another client sends a message
ServerEvent ==
    /\ nInjected < MaxNative
    /\ "display" \notin {released[i] : i \in 1..Len(released)}
    /\ \E c \in scenario : \E e \in ClassEvents(c) : Arrive(e)
    /\ nInjected' = nInjected + 1
    /\ UNCHANGED <<outbuf, wire, taken, scenario, winVars, pumpVars, lifeVars,
                   cursorVars, ctorVars>>

\* the server delivers a client message that XSendEvent sent to the window
ServerDeliver ==
    /\ wire # <<>>
    /\ Arrive(Head(wire))
    /\ wire' = Tail(wire)
    /\ UNCHANGED <<outbuf, taken, nInjected, scenario, winVars, pumpVars, lifeVars,
                   cursorVars, ctorVars>>

(***************************************************************************)
(* PollEventsIterator::next and WaitEventsIterator::next, run by thread t. *)
(***************************************************************************)
\* return Some(e)
ReturnSome(t, e) ==
    /\ ret' = [ret EXCEPT ![t] = e]
    /\ delivered' = Append(delivered, e)
    /\ pc' = [pc EXCEPT ![t] = "idle"]

\* a match arm falls through: the loop of PollEventsIterator::next goes round
Continue(t) ==
    /\ pc' = [pc EXCEPT ![t] = "mask"]
    /\ UNCHANGED <<ret, delivered>>

\* a slip: pop_back() instead of pop_front()
PollPop_popBack(t) ==
    /\ Alive
    /\ pc[t] \in {"idle", "poll"}
    /\ call' = IF pc[t] = "idle" THEN [call EXCEPT ![t] = NewCall("poll")] ELSE call
    /\ IF pending # <<>>
       THEN /\ pending' = SubSeq(pending, 1, Len(pending) - 1)
            /\ ReturnSome(t, pending[Len(pending)])
       ELSE /\ pending' = pending
            /\ Continue(t)
    /\ UNCHANGED <<connVars, is_closed, current_size, xev, seen_size, lifeVars,
                   cursorVars, ctorVars>>

\* pending_events.lock().unwrap().pop_front(), on entry to PollEventsIterator::next
\* (called by the user, or by WaitEventsIterator::next at "poll")
PollPop(t) ==
    /\ Alive
    /\ pc[t] \in {"idle", "poll"}
    /\ call' = IF pc[t] = "idle" THEN [call EXCEPT ![t] = NewCall("poll")] ELSE call
    /\ IF pending # <<>>
       THEN /\ pending' = Tail(pending)
            /\ ReturnSome(t, Head(pending))
       ELSE /\ pending' = pending
            /\ Continue(t)
    /\ UNCHANGED <<connVars, is_closed, current_size, xev, seen_size, lifeVars,
                   cursorVars, ctorVars>>

\* an XCheck..Event call finds the event at natq[i]: it is copied to xev and removed
Take(t, i) ==
    /\ xev' = [xev EXCEPT ![t] = natq[i]]
    /\ natq' = RemoveAt(natq, i)
    /\ taken' = Append(taken, natq[i])
    /\ call' = [call EXCEPT ![t].reads = @ + 1]

\* XCheckMaskEvent(display, -1, &mut xev): takes the first queued event whose
\* type has a mask bit
CheckMask(t) ==
    /\ pc[t] = "mask"
    /\ LET i == FirstIndex(natq, MaskedTypes) IN
       IF i # 0
       THEN /\ Take(t, i)
            /\ pc' = [pc EXCEPT ![t] = "match"]
       ELSE /\ pc' = [pc EXCEPT ![t] = "typed"]
            /\ UNCHANGED <<xev, natq, taken, call>>
    /\ UNCHANGED <<outbuf, wire, nArrived, nInjected, scenario, winVars,
                   seen_size, ret, delivered, lifeVars, cursorVars, ctorVars>>

\* XCheckTypedEvent(display, ClientMessage, &mut xev), and `return None` when it
\* finds nothing either
CheckTyped(t) ==
    /\ pc[t] = "typed"
    /\ LET i == FirstIndex(natq, ClientMessageType) IN
       IF i # 0
       THEN /\ Take(t, i)
            /\ pc' = [pc EXCEPT ![t] = "match"]
            /\ ret' = ret
       ELSE /\ UNCHANGED <<xev, natq, taken, call>>
            /\ IF call[t].mode = "wait"
               THEN pc' = [pc EXCEPT ![t] = "wloop"] /\ ret' = ret
               ELSE pc' = [pc EXCEPT ![t] = "idle"]
                    /\ ret' = [ret EXCEPT ![t] = NoEvent]
    /\ UNCHANGED <<outbuf, wire, nArrived, nInjected, scenario, winVars,
                   seen_size, delivered, lifeVars, cursorVars, ctorVars>>

Matching(t, types) == pc[t] = "match" /\ xev[t].type \in types
DoneWithXev(t) == xev' = [xev EXCEPT ![t] = NoXev]

\* ffi::KeymapNotify => XRefreshKeyboardMapping
OnKeymapNotify(t) ==
    /\ Matching(t, {"KeymapNotify"})
    /\ DoneWithXev(t)
    /\ Continue(t)
    /\ UNCHANGED <<connVars, winVars, seen_size, call, lifeVars, cursorVars, ctorVars>>

\* ffi::ClientMessage
OnClientMessage(t) ==
    /\ Matching(t, {"ClientMessage"})
    /\ DoneWithXev(t)
    /\ IF IsCloseMessage(xev[t])
       THEN /\ is_closed' = TRUE
            /\ ReturnSome(t, Closed(xev[t].id))
       ELSE /\ is_closed' = is_closed
            /\ ReturnSome(t, Awakened(xev[t].id))
    /\ UNCHANGED <<connVars, current_size, pending, seen_size, call, lifeVars,
                   cursorVars, ctorVars>>

\* ffi::ConfigureNotify: self.window.current_size.get()
OnConfigureNotify(t) ==
    /\ Matching(t, {"ConfigureNotify"})
    /\ seen_size' = [seen_size EXCEPT ![t] = current_size]
    /\ pc' = [pc EXCEPT ![t] = "configure"]
    /\ UNCHANGED <<connVars, winVars, xev, ret, call, delivered, lifeVars,
                   cursorVars, ctorVars>>

\* ffi::ConfigureNotify: the comparison, current_size.set and the return
CompareSize(t) ==
    /\ pc[t] = "configure"
    /\ DoneWithXev(t)
    /\ seen_size' = [seen_size EXCEPT ![t] = <<0, 0>>]
    /\ IF SizeDiffers(seen_size[t], xev[t])
       THEN /\ current_size' = <<xev[t].width, xev[t].height>>
            /\ ReturnSome(t, Resized(AsU32(xev[t].width), AsU32(xev[t].height),
                                     xev[t].id))
       ELSE /\ current_size' = current_size
            /\ Continue(t)
    /\ UNCHANGED <<connVars, is_closed, pending, call, lifeVars, cursorVars, ctorVars>>

\* ffi::Expose
OnExpose(t) ==
    /\ Matching(t, {"Expose"})
    /\ DoneWithXev(t)
    /\ ReturnSome(t, Refresh(xev[t].id))
    /\ UNCHANGED <<connVars, winVars, seen_size, call, lifeVars, cursorVars, ctorVars>>

\* ffi::MotionNotify
OnMotionNotify(t) ==
    /\ Matching(t, {"MotionNotify"})
    /\ DoneWithXev(t)
    /\ ReturnSome(t, MouseMoved(xev[t].x, xev[t].y, xev[t].id))
    /\ UNCHANGED <<connVars, winVars, seen_size, call, lifeVars, cursorVars, ctorVars>>

\* ffi::KeyPress | ffi::KeyRelease
OnKey(t) ==
    /\ Matching(t, {"KeyPress", "KeyRelease"})
    /\ DoneWithXev(t)
    /\ pending' = pending \o CharEvents(xev[t].buffer, xev[t].id)
    /\ ReturnSome(t, KeyboardInput(ElementState(xev[t].type), AsU8(xev[t].keycode),
                                   keycode_to_element(XKeycodeToKeysym(xev[t].keycode)),
                                   xev[t].id))
    /\ UNCHANGED <<connVars, is_closed, current_size, seen_size, call, lifeVars,
                   cursorVars, ctorVars>>

\* ffi::ButtonPress | ffi::ButtonRelease
OnButton(t) ==
    /\ Matching(t, {"ButtonPress", "ButtonRelease"})
    /\ DoneWithXev(t)
    /\ pending' = pending \o WheelEvents(xev[t].button, xev[t].id)
    /\ IF ButtonOf(xev[t].button) # "None"
       THEN ReturnSome(t, MouseInput(ElementState(xev[t].type),
                                     ButtonOf(xev[t].button), xev[t].id))
       ELSE Continue(t)
    /\ UNCHANGED <<connVars, is_closed, current_size, seen_size, call, lifeVars,
                   cursorVars, ctorVars>>

\* _ => ()
OnOther(t) ==
    /\ pc[t] = "match"
    /\ xev[t].type \notin {"KeymapNotify", "ClientMessage", "ConfigureNotify", "Expose",
                           "MotionNotify", "KeyPress", "KeyRelease", "ButtonPress",
                           "ButtonRelease"}
    /\ DoneWithXev(t)
    /\ Continue(t)
    /\ UNCHANGED <<connVars, winVars, seen_size, call, lifeVars, cursorVars, ctorVars>>

\* WaitEventsIterator::next: while !self.window.is_closed() { .. } None
WaitCheck(t) ==
    /\ Alive
    /\ pc[t] \in {"idle", "wloop"}
    /\ call' = IF pc[t] = "idle" THEN [call EXCEPT ![t] = NewCall("wait")] ELSE call
    /\ IF WaitLoopCondition
       THEN pc' = [pc EXCEPT ![t] = "wpop"] /\ ret' = ret
       ELSE pc' = [pc EXCEPT ![t] = "idle"] /\ ret' = [ret EXCEPT ![t] = NoEvent]
    /\ UNCHANGED <<connVars, winVars, xev, seen_size, delivered, lifeVars,
                   cursorVars, ctorVars>>

\* WaitEventsIterator::next: pending_events.lock().unwrap().pop_front()
WaitPop(t) ==
    /\ pc[t] = "wpop"
    /\ IF pending # <<>>
       THEN /\ pending' = Tail(pending)
            /\ ReturnSome(t, Head(pending))
            /\ call' = call
       ELSE /\ pending' = pending
            /\ pc' = [pc EXCEPT ![t] = "peek"]
            /\ call' = [call EXCEPT ![t].peeked = TRUE]
            /\ UNCHANGED <<ret, delivered>>
    /\ UNCHANGED <<connVars, is_closed, current_size, xev, seen_size, lifeVars,
                   cursorVars, ctorVars>>

\* XPeekEvent(display, &mut xev): blocks until the queue holds an event, which it
\* leaves there; then self.window.poll_events().next()
PeekEvent(t) ==
    /\ pc[t] = "peek"
    /\ natq # <<>>
    /\ pc' = [pc EXCEPT ![t] = "poll"]
    /\ UNCHANGED <<connVars, winVars, xev, seen_size, ret, call, delivered, lifeVars,
                   cursorVars, ctorVars>>

Pump(t) ==
    \/ PollPop(t) \/ CheckMask(t) \/ CheckTyped(t)
    \/ OnKeymapNotify(t) \/ OnClientMessage(t) \/ OnConfigureNotify(t)
    \/ CompareSize(t) \/ OnExpose(t) \/ OnMotionNotify(t) \/ OnKey(t)
    \/ OnButton(t) \/ OnOther(t)
    \/ WaitCheck(t) \/ WaitPop(t) \/ PeekEvent(t)

(***************************************************************************)
(* WindowProxy::wakeup_event_loop, run by waker p.                         *)
(***************************************************************************)
Sends == {i \in 1..Len(xcalls) : xcalls[i].fn = "XSendEvent"}

\* a slip: the target is used without looking whether it is still there
TargetPresent_unchecked == TRUE

\* if let Some(ref data) = *window_proxy_data
TargetPresent == target = "Some"

\* let window_proxy_data = self.data.lock().unwrap();
\* if let Some(ref data) = *window_proxy_data
WakeLock(p) ==
    /\ wpc[p] = "idle"
    /\ "wake" \in scenario
    /\ nWakes < MaxWakes
    /\ plock = "free"
    /\ plock' = p
    /\ nWakes' = nWakes + 1
    /\ wpc' = [wpc EXCEPT ![p] = IF TargetPresent THEN "send" ELSE "unlock"]
    /\ UNCHANGED <<connVars, winVars, pumpVars, target, dpc, is_fullscreen,
                   x_refs, proxies, released, xcalls, cursorVars, ctorVars>>

\* a slip: the message is built with another type_ than ffi::ClientMessage
WakeMessage_wrongType(k) == [type |-> "MappingNotify", data0 |-> ZeroedData, wake |-> k]

\* let mut xev = ffi::XClientMessageEvent { type_: ffi::ClientMessage, .. ,
\* data: mem::zeroed() }; wake is ghost: which wake-up the message belongs to
WakeMessage(k) == [type |-> "ClientMessage", data0 |-> ZeroedData, wake |-> k]

\* ffi::XSendEvent(data.display, data.window, 0, 0, &mut xev)
WakeSend(p) ==
    /\ wpc[p] = "send"
    /\ outbuf' = Append(outbuf, WakeMessage(Cardinality(Sends) + 1))
    /\ xcalls' = Append(xcalls, [fn |-> "XSendEvent", by |-> p, released |-> released,
                                 target |-> target])
    /\ wpc' = [wpc EXCEPT ![p] = "flush"]
    /\ UNCHANGED <<natq, wire, nArrived, taken, nInjected, scenario, winVars,
                   pumpVars, target, plock, nWakes, dpc, is_fullscreen, x_refs,
                   proxies, released, cursorVars, ctorVars>>

\* ffi::XFlush(data.display)
WakeFlush(p) ==
    /\ wpc[p] = "flush"
    /\ wire' = wire \o outbuf
    /\ outbuf' = <<>>
    /\ xcalls' = Append(xcalls, [fn |-> "XFlush", by |-> p, released |-> released,
                                 target |-> target])
    /\ wpc' = [wpc EXCEPT ![p] = "unlock"]
    /\ UNCHANGED <<natq, nArrived, taken, nInjected, scenario, winVars, pumpVars,
                   target, plock, nWakes, dpc, is_fullscreen, x_refs, proxies,
                   released, cursorVars, ctorVars>>

\* the MutexGuard goes out of scope: wakeup_event_loop returns
WakeUnlock(p) ==
    /\ wpc[p] = "unlock"
    /\ plock = p
    /\ plock' = "free"
    /\ wpc' = [wpc EXCEPT ![p] = "idle"]
    /\ UNCHANGED <<connVars, winVars, pumpVars, target, nWakes, dpc, is_fullscreen,
                   x_refs, proxies, released, xcalls, cursorVars, ctorVars>>

Wake(p) == WakeLock(p) \/ WakeSend(p) \/ WakeFlush(p) \/ WakeUnlock(p)

(***************************************************************************)
(* XWindow::drop.                                                          *)
(***************************************************************************)
\* the statements of XWindow::drop, in order
DropSteps == <<"revoke">> \o ReleaseOrder

\* a slip: drop clears the target without taking the mutex
DropHoldsLock_unlocked == TRUE

\* self.window_proxy_data.lock(): drop takes the mutex for the assignment
DropHoldsLock == plock = "free"

\* The Window is dropped, which drops Window.x: when that was the last
\* Arc<XWindow>, XWindow::drop runs, beginning with
\* *self.window_proxy_data.lock().unwrap() = None;
\* the Window can only be dropped while no thread borrows it
DropRevoke ==
    /\ dpc < Len(DropSteps)
    /\ DropSteps[dpc + 1] = "revoke"
    /\ \A t \in PumpThreads : pc[t] = "idle"
    /\ x_refs = 1
    /\ DropHoldsLock
    /\ x_refs' = 0
    /\ target' = "None"
    /\ dpc' = dpc + 1
    /\ UNCHANGED <<connVars, winVars, pumpVars, plock, wpc, nWakes, is_fullscreen,
                   proxies, released, xcalls, cursorVars, ctorVars>>

\* glx::DestroyContext, XF86VidModeSwitchToMode (if self.is_fullscreen),
\* XDestroyIC, XCloseIM, XDestroyWindow, XFreeColormap, XCloseDisplay
DropRelease ==
    /\ dpc < Len(DropSteps)
    /\ DropSteps[dpc + 1] # "revoke"
    /\ \A t \in PumpThreads : pc[t] = "idle"
    /\ released' = IF DropSteps[dpc + 1] = "mode" /\ ~is_fullscreen
                   THEN released
                   ELSE Append(released, DropSteps[dpc + 1])
    /\ dpc' = dpc + 1
    /\ UNCHANGED <<connVars, winVars, pumpVars, target, plock, wpc, nWakes,
                   is_fullscreen, x_refs, proxies, xcalls, cursorVars, ctorVars>>

(***************************************************************************)
(* WindowProxy handles.  A handle holds a clone of the                     *)
(* Arc<Mutex<Option<WindowProxyData>>>, not of the Arc<XWindow>.           *)
(***************************************************************************)
ProxyIds == 1..MaxProxies

ProxyFrame ==
    UNCHANGED <<connVars, winVars, pumpVars, target, plock, wpc, nWakes, dpc,
                is_fullscreen, released, xcalls, cursorVars, ctorVars>>

\* a slip: the handle keeps a clone of self.x, the Arc<XWindow>
CreateProxy_sharesXWindow(h) ==
    /\ Alive
    /\ h \notin proxies
    /\ proxies' = proxies \cup {h}
    /\ x_refs' = x_refs + 1
    /\ ProxyFrame

\* Window::create_window_proxy: WindowProxy { data: self.x.window_proxy_data.clone() }
CreateProxy(h) ==
    /\ Alive
    /\ h \notin proxies
    /\ proxies' = proxies \cup {h}
    /\ x_refs' = x_refs
    /\ ProxyFrame

\* #[derive(Clone)] struct WindowProxy: clone() of a handle that is alive
CloneProxy(h) ==
    /\ proxies # {}
    /\ h \notin proxies
    /\ proxies' = proxies \cup {h}
    /\ x_refs' = x_refs
    /\ ProxyFrame

\* a WindowProxy goes out of scope: its clone of the Arc is dropped
DropProxy(h) ==
    /\ h \in proxies
    /\ proxies' = proxies \ {h}
    /\ x_refs' = x_refs
    /\ ProxyFrame

(***************************************************************************)
(* Window::set_cursor_state, run by thread c.  A thread that panics        *)
(* unwinds and is gone; the Window, shared through &Window (it is Sync),   *)
(* stays with the other threads.                                           *)
(***************************************************************************)
CursorStates == {"Normal", "Grab"}

\* what XGrabPointer returns
GrabReplies ==
    {"GrabSuccess", "AlreadyGrabbed", "GrabInvalidTime", "GrabNotViewable",
     "GrabFrozen"}

\* set_cursor_state calls begun so far
CursorCalls ==
    Len(chist) + Cardinality({c \in CursorThreads : cpc[c] \in {"match", "grab"}})

\* ghost: the record of a call that ended
CursorEnded(c, req, before, result, natives, after, grabbed) ==
    [by |-> c, req |-> req, before |-> before, result |-> result,
     natives |-> natives, after |-> after, grabbed |-> grabbed]

\* a slip: the state is read without taking the mutex
CursorLock_noMutex(c, state) ==
    /\ Alive
    /\ cpc[c] = "idle"
    /\ CursorCalls < MaxCursorCalls
    /\ IF cursor_poisoned
       THEN /\ cpc' = [cpc EXCEPT ![c] = "dead"]
            /\ chist' = Append(chist, CursorEnded(c, state, cursor_state, "panic", <<>>,
                                                  cursor_state, pointer_grabbed))
            /\ UNCHANGED <<cursor_lock, ccall>>
       ELSE /\ cpc' = [cpc EXCEPT ![c] = "match"]
            /\ cursor_lock' = c
            /\ ccall' = [ccall EXCEPT ![c] =
                            [req |-> state, before |-> cursor_state, natives |-> <<>>]]
            /\ chist' = chist
    /\ UNCHANGED <<connVars, winVars, pumpVars, lifeVars, cursor_state,
                   cursor_poisoned, pointer_grabbed, ctorVars>>

\* let mut cursor_state = self.cursor_state.lock().unwrap();
\* lock() gives Err on a poisoned mutex, and unwrap() panics on it
CursorLock(c, state) ==
    /\ Alive
    /\ cpc[c] = "idle"
    /\ CursorCalls < MaxCursorCalls
    /\ cursor_lock = "free"
    /\ IF cursor_poisoned
       THEN /\ cpc' = [cpc EXCEPT ![c] = "dead"]
            /\ chist' = Append(chist, CursorEnded(c, state, cursor_state, "panic", <<>>,
                                                  cursor_state, pointer_grabbed))
            /\ UNCHANGED <<cursor_lock, ccall>>
       ELSE /\ cpc' = [cpc EXCEPT ![c] = "match"]
            /\ cursor_lock' = c
            /\ ccall' = [ccall EXCEPT ![c] =
                            [req |-> state, before |-> cursor_state, natives |-> <<>>]]
            /\ chist' = chist
    /\ UNCHANGED <<connVars, winVars, pumpVars, lifeVars, cursor_state,
                   cursor_poisoned, pointer_grabbed, ctorVars>>

\* match (state, *cursor_state):
\*   (Normal, Grab) => XUngrabPointer; *cursor_state = Normal; Ok(())
\*        (what XUngrabPointer returns is not looked at)
\*   (Grab, Normal) => *cursor_state = Grab; then the XGrabPointer call
\*   _ => unimplemented!(): the panic unwinds through the MutexGuard, which
\*        poisons the mutex and unlocks it
CursorMatch(c) ==
    /\ cpc[c] = "match"
    /\ LET req == ccall[c].req
           before == ccall[c].before
       IN  CASE req = "Normal" /\ cursor_state = "Grab" ->
                   /\ pointer_grabbed' = FALSE
                   /\ cursor_state' = "Normal"
                   /\ cursor_lock' = "free"
                   /\ cpc' = [cpc EXCEPT ![c] = "idle"]
                   /\ ccall' = [ccall EXCEPT ![c] = NoCursorCall]
                   /\ chist' = Append(chist, CursorEnded(c, req, before, "Ok",
                                                         <<"XUngrabPointer">>,
                                                         "Normal", FALSE))
                   /\ UNCHANGED cursor_poisoned
             [] req = "Grab" /\ cursor_state = "Normal" ->
                   /\ cursor_state' = "Grab"
                   /\ cpc' = [cpc EXCEPT ![c] = "grab"]
                   /\ UNCHANGED <<cursor_lock, cursor_poisoned, pointer_grabbed,
                                  ccall, chist>>
             [] OTHER ->
                   /\ cursor_poisoned' = TRUE
                   /\ cursor_lock' = "free"
                   /\ cpc' = [cpc EXCEPT ![c] = "dead"]
                   /\ ccall' = [ccall EXCEPT ![c] = NoCursorCall]
                   /\ chist' = Append(chist, CursorEnded(c, req, before, "panic", <<>>,
                                                         cursor_state, pointer_grabbed))
                   /\ UNCHANGED <<cursor_state, pointer_grabbed>>
    /\ UNCHANGED <<connVars, winVars, pumpVars, lifeVars, ctorVars>>

\* match ffi::XGrabPointer(..) { GrabSuccess => Ok(()),
\*   AlreadyGrabbed | GrabInvalidTime | GrabNotViewable | GrabFrozen => Err(..) }
CursorGrab(c) ==
    /\ cpc[c] = "grab"
    /\ \E reply \in GrabReplies :
          /\ pointer_grabbed' = (pointer_grabbed \/ reply = "GrabSuccess")
          /\ chist' = Append(chist,
                         CursorEnded(c, ccall[c].req, ccall[c].before,
                                     IF reply = "GrabSuccess" THEN "Ok" ELSE "Err",
                                     <<"XGrabPointer">>, cursor_state,
                                     pointer_grabbed \/ reply = "GrabSuccess"))
    /\ cursor_lock' = "free"
    /\ cpc' = [cpc EXCEPT ![c] = "idle"]
    /\ ccall' = [ccall EXCEPT ![c] = NoCursorCall]
    /\ UNCHANGED <<connVars, winVars, pumpVars, lifeVars, cursor_state,
                   cursor_poisoned, ctorVars>>

Cursor(c) ==
    \/ \E state \in CursorStates : CursorLock(c, state)
    \/ CursorMatch(c)
    \/ CursorGrab(c)

(***************************************************************************)
(* Window::new, run by thread t.                                           *)
(***************************************************************************)
\* `as u16` of a u32
AsU16(n) == n % 65536

\* builder.dimensions is an Option<(u32, u32)>
Dimensions == {<<800, 600>>, <<1024, 768>>, <<66336, 600>>}

GlRequests == {"Latest", "Specific_OpenGl", "Specific_Other", "GlThenGles"}

\* the fields of BuilderAttribs that Window::new branches on
Builders ==
    [monitor : {"None", "Some"}, dimensions : {NoDimensions} \cup Dimensions,
     vsync : BOOLEAN, strict : BOOLEAN, gl_version : GlRequests]

\* what XF86VidModeGetAllModeLines may list: (hdisplay, vdisplay) per mode line;
\* the server always has the mode it is in
ModeLists ==
    { << <<1024, 768>> >>,
      << <<1024, 768>>, <<800, 600>> >>,
      << <<800, 600>>, <<1280, 1024>>, <<800, 600>> >> }

\* the GLX extension functions load_with may find
Extensions == {"CreateContextAttribsARB", "SwapIntervalEXT", "SwapIntervalSGI"}

\* let dimensions = builder.dimensions.unwrap_or((800, 600));
DimensionsOf(b) ==
    IF b.dimensions = NoDimensions THEN <<800, 600>> ELSE b.dimensions

\* for i in 0..mode_num { if mode.hdisplay == dimensions.0 as u16 &&
\* mode.vdisplay == dimensions.1 as u16 { best_mode = i; } }, from best_mode = -1
BestMode(ms, dims) ==
    LET F[n \in 0..Len(ms)] ==
            IF n = 0 THEN -1
            ELSE IF ms[n][1] = AsU16(dims[1]) /\ ms[n][2] = AsU16(dims[2])
                 THEN n - 1
                 ELSE F[n - 1]
    IN  F[Len(ms)]

Ok == [tag |-> "Ok", msg |-> ""]
Err(msg) == [tag |-> "Err", msg |-> msg]
Panic(msg) == [tag |-> "panic", msg |-> msg]

\* return r: nothing the call holds is released on the way out
NewReturn(t, r) ==
    /\ npc' = [npc EXCEPT ![t] = "done"]
    /\ nresult' = [nresult EXCEPT ![t] = r]

NewLog(t, names) == nlog' = [nlog EXCEPT ![t] = nlog[t] \o names]

\* Window::new(builder) is called
NewBegin(t) ==
    /\ npc[t] = "idle"
    /\ \E b \in Builders : builder' = [builder EXCEPT ![t] = b]
    /\ npc' = [npc EXCEPT ![t] = "once"]
    /\ UNCHANGED <<connVars, winVars, pumpVars, lifeVars, cursorVars, once, imlock,
                   modes, best_mode, extra, held, nlog, nresult, swap>>

\* a slip: a plain flag tested before the closure and set after it, so a caller
\* arriving while the closure runs runs it again
NewOnce_plainFlag(t) ==
    /\ npc[t] = "once"
    /\ IF once # "done"
       THEN once' = "running" /\ npc' = [npc EXCEPT ![t] = "init"]
       ELSE once' = once /\ npc' = [npc EXCEPT ![t] = "open"]
    /\ UNCHANGED <<connVars, winVars, pumpVars, lifeVars, cursorVars, imlock, builder,
                   modes, best_mode, extra, held, nlog, nresult, swap>>

\* ensure_thread_init: THREAD_INIT.call_once(..) runs the closure in the first
\* caller, makes a caller wait while the closure runs, and is a no-op afterwards
NewOnce(t) ==
    /\ npc[t] = "once"
    /\ once # "running"
    /\ IF once = "new"
       THEN once' = "running" /\ npc' = [npc EXCEPT ![t] = "init"]
       ELSE once' = once /\ npc' = [npc EXCEPT ![t] = "open"]
    /\ UNCHANGED <<connVars, winVars, pumpVars, lifeVars, cursorVars, imlock, builder,
                   modes, best_mode, extra, held, nlog, nresult, swap>>

\* ffi::XInitThreads(); ffi::XSetErrorHandler(Some(x_error_callback));
NewInit(t) ==
    /\ npc[t] = "init"
    /\ NewLog(t, <<"XInitThreads", "XSetErrorHandler">>)
    /\ once' = "done"
    /\ npc' = [npc EXCEPT ![t] = "open"]
    /\ UNCHANGED <<connVars, winVars, pumpVars, lifeVars, cursorVars, imlock, builder,
                   modes, best_mode, extra, held, nresult, swap>>

\* let display = ffi::XOpenDisplay(ptr::null()); if display.is_null() { return Err }
NewOpenDisplay(t) ==
    /\ npc[t] = "open"
    /\ NewLog(t, <<"XOpenDisplay">>)
    /\ \E ok \in BOOLEAN :
          IF ok
          THEN /\ held' = [held EXCEPT ![t] = held[t] \cup {"display"}]
               /\ npc' = [npc EXCEPT ![t] = "fbconfig"]
               /\ nresult' = nresult
          ELSE /\ NewReturn(t, Err("XOpenDisplay failed"))
               /\ held' = held
    /\ UNCHANGED <<connVars, winVars, pumpVars, lifeVars, cursorVars, once, imlock,
                   builder, modes, best_mode, extra, swap>>

\* let fb = ffi::glx::ChooseFBConfig(..); if fb.is_null() { return Err }
\* let preferred_fb = *fb; ffi::XFree(fb)
NewChooseFBConfig(t) ==
    /\ npc[t] = "fbconfig"
    /\ \E ok \in BOOLEAN :
          IF ok
          THEN /\ NewLog(t, <<"glx::ChooseFBConfig", "XFree">>)
               /\ npc' = [npc EXCEPT ![t] = "modes"]
               /\ nresult' = nresult
          ELSE /\ NewLog(t, <<"glx::ChooseFBConfig">>)
               /\ NewReturn(t, Err("glx::ChooseFBConfig failed"))
    /\ UNCHANGED <<connVars, winVars, pumpVars, lifeVars, cursorVars, once, imlock,
                   builder, modes, best_mode, extra, held, swap>>

\* if XF86VidModeGetAllModeLines(..) == 0 { return Err }; the loop over the modes;
\* if best_mode == -1 && builder.monitor.is_some() { return Err }
NewModeLines(t) ==
    /\ npc[t] = "modes"
    /\ NewLog(t, <<"XF86VidModeGetAllModeLines">>)
    /\ \E ok \in BOOLEAN :
          IF ok
          THEN \E ms \in ModeLists :
                  /\ modes' = [modes EXCEPT ![t] = ms]
                  /\ held' = [held EXCEPT ![t] = held[t] \cup {"modes"}]
                  /\ best_mode' = [best_mode EXCEPT ![t] =
                                      BestMode(ms, DimensionsOf(builder[t]))]
                  /\ IF best_mode'[t] = -1 /\ builder[t].monitor = "Some"
                     THEN NewReturn(t, Err("Could not find a suitable graphics mode"))
                     ELSE /\ npc' = [npc EXCEPT ![t] = "visual"]
                          /\ nresult' = nresult
          ELSE /\ NewReturn(t, Err("Could not query the video modes"))
               /\ UNCHANGED <<modes, best_mode, held>>
    /\ UNCHANGED <<connVars, winVars, pumpVars, lifeVars, cursorVars, once, imlock,
                   builder, extra, swap>>

\* let vi = ffi::glx::GetVisualFromFBConfig(..); if vi.is_null() { return Err }
\* ptr::read(vi); ffi::XFree(vi); then the pixel format is read
NewVisual(t) ==
    /\ npc[t] = "visual"
    /\ \E ok \in BOOLEAN :
          IF ok
          THEN /\ NewLog(t, <<"glx::GetVisualFromFBConfig", "XFree">>)
               /\ npc' = [npc EXCEPT ![t] = "window"]
               /\ nresult' = nresult
          ELSE /\ NewLog(t, <<"glx::GetVisualFromFBConfig">>)
               /\ NewReturn(t, Err("glx::ChooseVisual failed"))
    /\ UNCHANGED <<connVars, winVars, pumpVars, lifeVars, cursorVars, once, imlock,
                   builder, modes, best_mode, extra, held, swap>>

\* XCreateColormap; if builder.monitor.is_some() { XF86VidModeSwitchToMode(..,
\* modes[best_mode]); XF86VidModeSetViewPort }; XCreateWindow; XInternAtom,
\* XSetWMProtocols, XStoreName, XFlush.  None of these is checked for failure.
NewCreateWindow(t) ==
    /\ npc[t] = "window"
    /\ IF builder[t].monitor = "Some"
       THEN /\ NewLog(t, <<"XCreateColormap", "XF86VidModeSwitchToMode",
                            "XCreateWindow">>)
            /\ held' = [held EXCEPT ![t] =
                           held[t] \cup {"colormap", "mode_switch", "window"}]
       ELSE /\ NewLog(t, <<"XCreateColormap", "XCreateWindow">>)
            /\ held' = [held EXCEPT ![t] = held[t] \cup {"colormap", "window"}]
    /\ npc' = [npc EXCEPT ![t] = "imlock"]
    /\ UNCHANGED <<connVars, winVars, pumpVars, lifeVars, cursorVars, once, imlock,
                   builder, modes, best_mode, extra, nresult, swap>>

\* let _lock = GLOBAL_XOPENIM_LOCK.lock().unwrap();
NewIMLock(t) ==
    /\ npc[t] = "imlock"
    /\ imlock = "free"
    /\ imlock' = t
    /\ npc' = [npc EXCEPT ![t] = "openim"]
    /\ UNCHANGED <<connVars, winVars, pumpVars, lifeVars, cursorVars, once, builder,
                   modes, best_mode, extra, held, nlog, nresult, swap>>

\* a slip: the lock is released by hand after the null test, so the early
\* return keeps it
NewOpenIM_lockKeptOnError(t) ==
    /\ npc[t] = "openim"
    /\ NewLog(t, <<"XOpenIM">>)
    /\ \E ok \in BOOLEAN :
          IF ok
          THEN /\ held' = [held EXCEPT ![t] = held[t] \cup {"im"}]
               /\ npc' = [npc EXCEPT ![t] = "ic"]
               /\ nresult' = nresult
               /\ imlock' = "free"
          ELSE /\ NewReturn(t, Err("XOpenIM failed"))
               /\ held' = held
               /\ imlock' = imlock
    /\ UNCHANGED <<connVars, winVars, pumpVars, lifeVars, cursorVars, once, builder,
                   modes, best_mode, extra, swap>>

\* let im = ffi::XOpenIM(..); if im.is_null() { return Err }; _lock is dropped
\* at the end of the block and on the early return
NewOpenIM(t) ==
    /\ npc[t] = "openim"
    /\ NewLog(t, <<"XOpenIM">>)
    /\ imlock' = "free"
    /\ \E ok \in BOOLEAN :
          IF ok
          THEN /\ held' = [held EXCEPT ![t] = held[t] \cup {"im"}]
               /\ npc' = [npc EXCEPT ![t] = "ic"]
               /\ nresult' = nresult
          ELSE /\ NewReturn(t, Err("XOpenIM failed"))
               /\ held' = held
    /\ UNCHANGED <<connVars, winVars, pumpVars, lifeVars, cursorVars, once, builder,
                   modes, best_mode, extra, swap>>

\* let ic = ffi::XCreateIC(..); if ic.is_null() { return Err }; XSetICFocus(ic)
NewCreateIC(t) ==
    /\ npc[t] = "ic"
    /\ \E ok \in BOOLEAN :
          IF ok
          THEN /\ NewLog(t, <<"XCreateIC", "XSetICFocus">>)
               /\ held' = [held EXCEPT ![t] = held[t] \cup {"ic"}]
               /\ npc' = [npc EXCEPT ![t] = "xkb"]
               /\ nresult' = nresult
          ELSE /\ NewLog(t, <<"XCreateIC">>)
               /\ NewReturn(t, Err("XCreateIC failed"))
               /\ held' = held
    /\ UNCHANGED <<connVars, winVars, pumpVars, lifeVars, cursorVars, once, imlock,
                   builder, modes, best_mode, extra, swap>>

\* XkbSetDetectableAutoRepeat(display, True, &mut supported_ptr);
\* if supported_ptr == False { return Err }; then the WM_CLASS hint is set
NewDetectableAutoRepeat(t) ==
    /\ npc[t] = "xkb"
    /\ \E supported \in BOOLEAN :
          IF supported
          THEN /\ NewLog(t, <<"XkbSetDetectableAutoRepeat", "XSetClassHint">>)
               /\ npc' = [npc EXCEPT ![t] = "context"]
               /\ nresult' = nresult
          ELSE /\ NewLog(t, <<"XkbSetDetectableAutoRepeat">>)
               /\ NewReturn(t, Err("XkbSetDetectableAutoRepeat failed"))
    /\ UNCHANGED <<connVars, winVars, pumpVars, lifeVars, cursorVars, once, imlock,
                   builder, modes, best_mode, extra, held, swap>>

\* match builder.gl_version { .. GlRequest::Specific(_, _) => panic!(..) .. };
\* Glx::load_with; CreateContextAttribsARB if it is loaded, glx::CreateContext if
\* that gave null; if context.is_null() { return Err }
NewContext(t) ==
    /\ npc[t] = "context"
    /\ IF builder[t].gl_version = "Specific_Other"
       THEN /\ NewReturn(t, Panic("Only OpenGL is supported"))
            /\ UNCHANGED <<extra, held, nlog>>
       ELSE \E found \in SUBSET Extensions, arb, legacy \in BOOLEAN :
               LET byArb == "CreateContextAttribsARB" \in found /\ arb
                   calls == (IF "CreateContextAttribsARB" \in found
                             THEN <<"CreateContextAttribsARB">> ELSE <<>>)
                            \o (IF byArb THEN <<>> ELSE <<"glx::CreateContext">>)
               IN  /\ extra' = [extra EXCEPT ![t] = found]
                   /\ NewLog(t, calls)
                   /\ IF byArb \/ legacy
                      THEN /\ held' = [held EXCEPT ![t] = held[t] \cup {"context"}]
                           /\ npc' = [npc EXCEPT ![t] = "vsync"]
                           /\ nresult' = nresult
                      ELSE /\ NewReturn(t, Err("GL context creation failed"))
                           /\ held' = held
    /\ UNCHANGED <<connVars, winVars, pumpVars, lifeVars, cursorVars, once, imlock,
                   builder, modes, best_mode, swap>>

\* if builder.vsync { MakeCurrent(display, window, context);
\*   if SwapIntervalEXT.is_loaded() { SwapIntervalEXT(.., 1);
\*       if builder.strict { QueryDrawable(.., &mut swap); if swap != 1 { return Err } } }
\*       (swap is uninitialized before the query: it ends as 1 or as something else)
\*   else if SwapIntervalSGI.is_loaded() { SwapIntervalSGI(1) }
\*   else if builder.strict { return Err }
\*   MakeCurrent(display, 0, null) }
NewVsync(t) ==
    /\ npc[t] = "vsync"
    /\ IF ~builder[t].vsync
       THEN /\ npc' = [npc EXCEPT ![t] = "assemble"]
            /\ UNCHANGED <<swap, held, nlog, nresult>>
       ELSE CASE "SwapIntervalEXT" \in extra[t] /\ builder[t].strict ->
                    \E v \in {0, 1} :
                       /\ swap' = [swap EXCEPT ![t] = v]
                       /\ IF v # 1
                          THEN /\ NewLog(t, <<"glx::MakeCurrent", "SwapIntervalEXT",
                                              "glx::QueryDrawable">>)
                               /\ held' = [held EXCEPT ![t] = held[t] \cup {"current"}]
                               /\ NewReturn(t, Err("Couldn't setup vsync"))
                          ELSE /\ NewLog(t, <<"glx::MakeCurrent", "SwapIntervalEXT",
                                              "glx::QueryDrawable",
                                              "glx::MakeCurrent(0)">>)
                               /\ npc' = [npc EXCEPT ![t] = "assemble"]
                               /\ UNCHANGED <<held, nresult>>
              [] "SwapIntervalEXT" \in extra[t] /\ ~builder[t].strict ->
                    /\ NewLog(t, <<"glx::MakeCurrent", "SwapIntervalEXT",
                                   "glx::MakeCurrent(0)">>)
                    /\ npc' = [npc EXCEPT ![t] = "assemble"]
                    /\ UNCHANGED <<swap, held, nresult>>
              [] "SwapIntervalEXT" \notin extra[t]
                   /\ "SwapIntervalSGI" \in extra[t] ->
                    /\ NewLog(t, <<"glx::MakeCurrent", "SwapIntervalSGI",
                                   "glx::MakeCurrent(0)">>)
                    /\ npc' = [npc EXCEPT ![t] = "assemble"]
                    /\ UNCHANGED <<swap, held, nresult>>
              [] "SwapIntervalEXT" \notin extra[t]
                   /\ "SwapIntervalSGI" \notin extra[t] /\ builder[t].strict ->
                    /\ NewLog(t, <<"glx::MakeCurrent">>)
                    /\ held' = [held EXCEPT ![t] = held[t] \cup {"current"}]
                    /\ NewReturn(t, Err("Couldn't find any available vsync extension"))
                    /\ swap' = swap
              [] OTHER ->
                    /\ NewLog(t, <<"glx::MakeCurrent", "glx::MakeCurrent(0)">>)
                    /\ npc' = [npc EXCEPT ![t] = "assemble"]
                    /\ UNCHANGED <<swap, held, nresult>>
    /\ UNCHANGED <<connVars, winVars, pumpVars, lifeVars, cursorVars, once, imlock,
                   builder, modes, best_mode, extra>>

\* let window = Window { x: Arc::new(XWindow { .. is_fullscreen:
\* builder.monitor.is_some(), .. window_proxy_data }), is_closed: false,
\* current_size: (0, 0), pending_events: empty, cursor_state: Normal }; Ok(window)
NewAssemble(t) ==
    /\ npc[t] = "assemble"
    /\ NewReturn(t, Ok)
    /\ target' = "Some"
    /\ is_fullscreen' = (builder[t].monitor = "Some")
    /\ x_refs' = 1
    /\ is_closed' = FALSE
    /\ current_size' = <<0, 0>>
    /\ pending' = <<>>
    /\ cursor_state' = "Normal"
    /\ UNCHANGED <<connVars, pumpVars, plock, wpc, nWakes, dpc, proxies, released,
                   xcalls, cursor_lock, cursor_poisoned, pointer_grabbed, cpc, ccall, chist,
                   once, imlock, builder, modes, best_mode, extra, held, nlog, swap>>

New(t) ==
    \/ NewBegin(t) \/ NewOnce(t) \/ NewInit(t) \/ NewOpenDisplay(t)
    \/ NewChooseFBConfig(t) \/ NewModeLines(t) \/ NewVisual(t)
    \/ NewCreateWindow(t) \/ NewIMLock(t) \/ NewOpenIM(t) \/ NewCreateIC(t)
    \/ NewDetectableAutoRepeat(t) \/ NewContext(t) \/ NewVsync(t)
    \/ NewAssemble(t)

(***************************************************************************)
(* Specifications.                                                         *)
(***************************************************************************)
\* the event pump of a live window, driven by one thread, with a proxy waking it
Next == ServerEvent \/ ServerDeliver \/ Pump(1) \/ Wake("w1")

Spec == Init /\ [][Next]_vars

\* proxies on several threads against the drop of the window
InitLife ==
    /\ InitWindow
    /\ Constructed
    /\ scenario = {"wake"}
    /\ is_fullscreen \in BOOLEAN

NextLife == DropRevoke \/ DropRelease \/ \E p \in Wakers : Wake(p)

SpecLife == InitLife /\ [][NextLife]_vars

\* A Window whose proxies are created, cloned and dropped while it lives and
\* after it was dropped.
InitProxy ==
    /\ InitWindow
    /\ Constructed
    /\ scenario = {}
    /\ is_fullscreen \in BOOLEAN

NextProxy ==
    \/ \E h \in ProxyIds : CreateProxy(h) \/ CloneProxy(h) \/ DropProxy(h)
    \/ DropRevoke
    \/ DropRelease

SpecProxy == InitProxy /\ [][NextProxy]_vars

\* a thread that keeps calling next() on a window that a proxy wakes, while the
\* server sends client messages and events that no XCheck..Event call takes.  Threads are
\* scheduled fairly: a call that can take a step takes it, the caller calls
\* next() again after each return, a started wake-up runs to its end, and the
\* server delivers what was flushed to it.
WakeScenario == {"client", "mapping", "wake"}

InitWake ==
    /\ InitWindow
    /\ Constructed
    /\ scenario = WakeScenario
    /\ is_fullscreen = FALSE

PumpWake(t) ==
    \/ PollPop(t) \/ CheckMask(t) \/ CheckTyped(t) \/ OnClientMessage(t)
    \/ WaitCheck(t) \/ WaitPop(t) \/ PeekEvent(t)

WakeFinish(p) == WakeSend(p) \/ WakeFlush(p) \/ WakeUnlock(p)

NextWake == ServerEvent \/ ServerDeliver \/ PumpWake(1) \/ Wake("w1")

SpecWake ==
    /\ InitWake /\ [][NextWake]_vars
    /\ WF_vars(PumpWake(1))
    /\ WF_vars(ServerDeliver)
    /\ WF_vars(WakeFinish("w1"))

\* a thread that keeps calling next() on either iterator, scheduled fairly,
\* while the server reports scroll and button presses, client messages (close
\* and other) and events that make no portable event
DrainScenario == {"client", "misc", "wheel"}

InitDrain ==
    /\ InitWindow
    /\ Constructed
    /\ scenario = DrainScenario
    /\ is_fullscreen = FALSE

PumpDrain(t) ==
    \/ PollPop(t) \/ CheckMask(t) \/ CheckTyped(t)
    \/ OnKeymapNotify(t) \/ OnClientMessage(t) \/ OnButton(t) \/ OnOther(t)
    \/ WaitCheck(t) \/ WaitPop(t) \/ PeekEvent(t)

NextDrain == ServerEvent \/ PumpDrain(1)

SpecDrain == InitDrain /\ [][NextDrain]_vars /\ WF_vars(PumpDrain(1))

\* Two threads call window.poll_events().next() on the same window (Window is
\* Sync) while the server reports sizes.
ResizeScenario == {"configure"}

InitPumpPair ==
    /\ InitWindow
    /\ Constructed
    /\ scenario = ResizeScenario
    /\ is_fullscreen = FALSE

PumpResize(t) ==
    \/ PollPop(t) \/ CheckMask(t) \/ CheckTyped(t)
    \/ OnConfigureNotify(t) \/ CompareSize(t)

NextPumpPair == ServerEvent \/ \E t \in PumpThreads : PumpResize(t)

SpecPumpPair == InitPumpPair /\ [][NextPumpPair]_vars

\* One thread calls window.wait_events().next() again and again, and nothing
\* else pumps; it keeps running.
WaitScenario == {"client", "wheel", "key"}

InitWaitLoop ==
    /\ InitWindow
    /\ Constructed
    /\ scenario = WaitScenario
    /\ is_fullscreen = FALSE

\* self.window.poll_events().next(), as WaitEventsIterator::next calls it
PollInWait(t) == pc[t] = "poll" /\ PollPop(t)

WaitCall(t) ==
    \/ WaitCheck(t) \/ WaitPop(t) \/ PeekEvent(t) \/ PollInWait(t)
    \/ CheckMask(t) \/ CheckTyped(t) \/ OnClientMessage(t) \/ OnKey(t)
    \/ OnButton(t)

NextWaitLoop == ServerEvent \/ WaitCall(1)

SpecWaitLoop == InitWaitLoop /\ [][NextWaitLoop]_vars /\ WF_vars(WaitCall(1))

\* threads calling set_cursor_state on one window
InitCursor ==
    /\ InitWindow
    /\ Constructed
    /\ scenario = {}
    /\ is_fullscreen = FALSE

NextCursor == \E c \in CursorThreads : Cursor(c)

SpecCursor == InitCursor /\ [][NextCursor]_vars

\* one thread constructing a window, in a process that may have constructed
\* windows before; no Window exists until Window::new returns Ok
InitNew ==
    /\ InitWindow
    /\ once \in {"new", "done"}
    /\ target = "None"
    /\ x_refs = 0
    /\ scenario = {}
    /\ is_fullscreen = FALSE

NextNew == New("n1")

SpecNew == InitNew /\ [][NextNew]_vars

\* Two threads of a fresh process call Window::new at the same time, each with
\* the attributes of a plain windowed window.
InitRace ==
    /\ InitWindow
    /\ once = "new"
    /\ target = "None"
    /\ x_refs = 0
    /\ scenario = {}
    /\ is_fullscreen = FALSE

\* Window::new(builder) is called with no monitor, no dimensions and no vsync
NewBeginWindowed(t) ==
    /\ npc[t] = "idle"
    /\ builder' = [builder EXCEPT ![t] = NoBuilder]
    /\ npc' = [npc EXCEPT ![t] = "once"]
    /\ UNCHANGED <<connVars, winVars, pumpVars, lifeVars, cursorVars, once, imlock,
                   modes, best_mode, extra, held, nlog, nresult, swap>>

NewRace(t) ==
    \/ NewBeginWindowed(t) \/ NewOnce(t) \/ NewInit(t) \/ NewOpenDisplay(t)
    \/ NewChooseFBConfig(t) \/ NewModeLines(t) \/ NewVisual(t)
    \/ NewCreateWindow(t) \/ NewIMLock(t) \/ NewOpenIM(t) \/ NewCreateIC(t)
    \/ NewDetectableAutoRepeat(t) \/ NewContext(t) \/ NewVsync(t)
    \/ NewAssemble(t)

NextRace == \E t \in NewThreads : NewRace(t)

\* every thread that is inside Window::new keeps running
SpecRace ==
    InitRace /\ [][NextRace]_vars /\ \A t \in NewThreads : WF_vars(NewRace(t))

(***************************************************************************)
(* Vocabulary of the properties.                                           *)
(***************************************************************************)
\* every portable event made so far, in the order the caller gets (or will get) them
AllEvents == delivered \o pending

\* the events of seq made from native event id, in order
FromSrc(seq, id) ==
    LET F[i \in 0..Len(seq)] ==
            IF i = 0 THEN <<>>
            ELSE IF seq[i].src = id THEN Append(F[i - 1], seq[i]) ELSE F[i - 1]
    IN  F[Len(seq)]

\* native event id has been taken from the queue and its match arm has run
Processed(id) ==
    /\ \E j \in 1..Len(taken) : taken[j].id = id
    /\ \A t \in PumpThreads : xev[t].id # id

IsResized(e) == e.ev = "Resized"
ResizedEvents == SelectSeq(delivered, IsResized)
DimsOf(e) == <<e.w, e.h>>
LastResize ==
    IF ResizedEvents = <<>> THEN <<0, 0>>
    ELSE DimsOf(ResizedEvents[Len(ResizedEvents)])

ClosedEmitted == \E i \in 1..Len(delivered) : delivered[i].ev = "Closed"

(***************************************************************************)
(* C1.  With one thread pumping, a configure notification yields           *)
(* Resized(w, h) if and only if (w, h) differs from the cached size; the   *)
(* cache starts at (0, 0) and is set to (w, h) exactly when Resized(w, h)  *)
(* is returned.  So the cache always holds the dimensions of the last      *)
(* Resized event, and no two consecutive Resized events carry the same     *)
(* dimensions.                                                             *)
(***************************************************************************)
C1_Cache ==
    /\ current_size = LastResize
    /\ \A i \in 1..Len(ResizedEvents) :
          DimsOf(ResizedEvents[i]) #
              (IF i = 1 THEN <<0, 0>> ELSE DimsOf(ResizedEvents[i - 1]))

C1_Notification ==
    /\ \A t \in PumpThreads :
          pc[t] = "configure" /\ pc'[t] # "configure" =>
             LET w == xev[t].width
                 h == xev[t].height
             IN  IF <<w, h>> # current_size
                 THEN /\ delivered' = Append(delivered, Resized(w, h, xev[t].id))
                      /\ ret'[t] = Resized(w, h, xev[t].id)
                      /\ current_size' = <<w, h>>
                 ELSE /\ delivered' = delivered
                      /\ current_size' = current_size
    /\ current_size' # current_size => \E t \in PumpThreads : pc[t] = "configure"

C1_ResizeDedup == [](C1_Cache) /\ [][C1_Notification]_vars

\* two notifications with the same dimensions in a row were processed: the first
\* made a Resized event, the second nothing
C1_Witness ==
    \E i, j \in 1..Len(taken) :
        /\ i < j
        /\ taken[i].type = "ConfigureNotify" /\ taken[j].type = "ConfigureNotify"
        /\ \A k \in (i + 1)..(j - 1) : taken[k].type # "ConfigureNotify"
        /\ taken[i].width = taken[j].width /\ taken[i].height = taken[j].height
        /\ Processed(taken[j].id)
        /\ FromSrc(delivered, taken[i].id) # <<>>
        /\ FromSrc(AllEvents, taken[j].id) = <<>>

(***************************************************************************)
(* C2.  The closed flag starts false, becomes true only in the step in     *)
(* which the pump processes a client message carrying the close atom (the  *)
(* step that returns Closed), and never goes back to false.  Once Closed   *)
(* has been returned the flag is true, and a WaitEventsIterator::next call *)
(* made while the flag is true returns None at once: it neither waits in   *)
(* XPeekEvent nor takes a native event.                                    *)
(***************************************************************************)
C2_State ==
    /\ (delivered = <<>> /\ taken = <<>>) => ~is_closed
    /\ ClosedEmitted => is_closed
    /\ \A t \in PumpThreads :
          call[t].mode = "wait" /\ call[t].closedAtStart =>
             /\ pc[t] = "idle"
             /\ ret[t] = NoEvent
             /\ ~call[t].peeked
             /\ call[t].reads = 0

C2_Step ==
    /\ is_closed => is_closed'
    /\ ~is_closed /\ is_closed' =>
          \E t \in PumpThreads :
              /\ pc[t] = "match"
              /\ xev[t].type = "ClientMessage"
              /\ xev[t].data0 = WmDeleteWindow
              /\ ret'[t] = Closed(xev[t].id)
              /\ delivered' = Append(delivered, Closed(xev[t].id))

C2_ClosedMonotonic == [](C2_State) /\ [][C2_Step]_vars

\* after Closed was returned, a blocking-wait call has been made and returned None
C2_Witness ==
    /\ ClosedEmitted
    /\ call[1].mode = "wait" /\ call[1].closedAtStart
    /\ pc[1] = "idle" /\ ret[1] = NoEvent

(***************************************************************************)
(* C8.  With one thread pumping, a key-press record whose lookup decodes   *)
(* to N characters makes exactly one KeyboardInput(Pressed, keycode, _)    *)
(* event, returned by the call that took the record, and exactly N         *)
(* ReceivedCharacter events in decode order, which come after the          *)
(* KeyboardInput event and sit next to each other in the pending queue;    *)
(* none is made before the record is processed and none is lost.           *)
(***************************************************************************)
\* the characters the lookup of a key record decodes to
DecodedChars(k) == IF k.buffer = BadUtf8 THEN <<>> ELSE k.buffer

Contiguous(seq, id) ==
    \A i, j \in 1..Len(seq) :
        i < j /\ seq[i].src = id /\ seq[j].src = id =>
            \A m \in i..j : seq[m].src = id

C8_KeyPressEvents ==
    \A j \in 1..Len(taken) :
        taken[j].type = "KeyPress" =>
            LET k == taken[j]
                made == FromSrc(AllEvents, k.id)
                n == Len(DecodedChars(k))
            IN  IF Processed(k.id)
                THEN /\ Len(made) = n + 1
                     /\ made[1].ev = "KeyboardInput"
                     /\ made[1].state = "Pressed"
                     /\ made[1].raw = k.keycode
                     /\ \A i \in 1..n :
                           /\ made[i + 1].ev = "ReceivedCharacter"
                           /\ made[i + 1].chr = DecodedChars(k)[i]
                     /\ FromSrc(delivered, k.id) # <<>>
                     /\ Contiguous(pending, k.id)
                ELSE made = <<>>

\* a key press that decoded to two characters: all three events have been returned
C8_Witness ==
    \E j \in 1..Len(taken) :
        /\ taken[j].type = "KeyPress"
        /\ Len(DecodedChars(taken[j])) = 2
        /\ Len(FromSrc(delivered, taken[j].id)) = 3
        /\ \E i \in 1..Len(delivered) : delivered[i].ev = "MouseWheel"

(***************************************************************************)
(* C9.  A button press or release record with button 1, 2 or 3 makes       *)
(* exactly one event, MouseInput(state, Left / Middle / Right); with       *)
(* button 4 or 5 exactly one event, a MouseWheel with vertical line delta  *)
(* +1 or -1; with any other button code no event.                          *)
(***************************************************************************)
C9_ButtonEvents ==
    \A j \in 1..Len(taken) :
        taken[j].type \in {"ButtonPress", "ButtonRelease"} /\ Processed(taken[j].id) =>
            LET b == taken[j].button
                id == taken[j].id
                st == IF taken[j].type = "ButtonPress" THEN "Pressed" ELSE "Released"
                made == FromSrc(AllEvents, id)
                input(name) == <<[ev |-> "MouseInput", state |-> st, button |-> name,
                                  src |-> id]>>
                wheel(dy) == <<[ev |-> "MouseWheel", dx |-> 0, dy |-> dy, src |-> id]>>
            IN  CASE b = 1 -> made = input("Left")
                  [] b = 2 -> made = input("Middle")
                  [] b = 3 -> made = input("Right")
                  [] b = 4 -> made = wheel(1)
                  [] b = 5 -> made = wheel(-1)
                  [] OTHER -> made = <<>>

\* releases of buttons 2, 5 and 6 have been processed and their events returned
C9_Witness ==
    /\ \A b \in {2, 5, 6} :
          \E j \in 1..Len(taken) :
              /\ taken[j].type = "ButtonRelease" /\ taken[j].button = b
              /\ Processed(taken[j].id)
    /\ pending = <<>>
    /\ Len(delivered) = 2

(***************************************************************************)
(* C3.  Once XWindow::drop has set the proxy target to None, no            *)
(* wakeup_event_loop call, on whichever thread and however many of them,   *)
(* sends or flushes anything: a call that takes the lock finds None and    *)
(* goes straight to releasing the lock, which it holds and can release, so *)
(* it returns.                                                             *)
(***************************************************************************)
C3_State ==
    \A p \in Wakers :
        /\ wpc[p] \in {"send", "flush"} => target = "Some"
        /\ wpc[p] # "idle" => plock = p

C3_Step ==
    target = "None" =>
        /\ target' = "None"
        /\ xcalls' = xcalls /\ outbuf' = outbuf /\ wire' = wire
        /\ \A p \in Wakers :
              wpc[p] = "idle" /\ wpc'[p] # "idle" => wpc'[p] = "unlock"

C3_WakeAfterRevokeIsNoop == [](C3_State) /\ [][C3_Step]_vars

\* the window is torn down; two wake-ups made after the revocation have returned
C3_Witness ==
    /\ target = "None"
    /\ dpc = Len(DropSteps)
    /\ \A p \in Wakers : wpc[p] = "idle"
    /\ nWakes >= Cardinality(Sends) + 2

(***************************************************************************)
(* C5.  However XWindow::drop and wakeup_event_loop calls interleave, a    *)
(* wake-up sends and flushes only while nothing has been released: every   *)
(* XSendEvent and XFlush of a waker happens with the target present and    *)
(* before drop has started, and drop releases its first resource only      *)
(* after the target is None.                                               *)
(***************************************************************************)
C5_NoUseAfterRelease ==
    /\ \A p \in Wakers : wpc[p] \in {"send", "flush"} => dpc = 0 /\ released = <<>>
    /\ \A i \in 1..Len(xcalls) :
          xcalls[i].released = <<>> /\ xcalls[i].target = "Some"
    /\ released # <<>> => target = "None"

\* a wake-up sent its message before the drop, and another wake-up is inside
\* wakeup_event_loop while drop is releasing resources
C5_Witness ==
    /\ Sends # {}
    /\ released # <<>> /\ dpc < Len(DropSteps)
    /\ \E p \in Wakers : wpc[p] = "unlock"

(***************************************************************************)
(* C4.  On a live window, each wake-up is observed exactly once: no        *)
(* wake-up message makes more than one Awakened event, and once            *)
(* wakeup_event_loop has sent the message of a wake-up its Awakened event  *)
(* is eventually returned to the thread that keeps calling next(), unless  *)
(* the window gets closed.  A next() call blocked in XPeekEvent returns    *)
(* once a wake-up message is under way.                                    *)
(***************************************************************************)
\* the k-th XSendEvent of a wake-up has been made
WakeSent(k) == Cardinality(Sends) >= k

\* the Awakened events returned for the k-th wake-up
AwakenedFor(k) ==
    {i \in 1..Len(delivered) :
        /\ delivered[i].ev = "Awakened"
        /\ \E j \in 1..Len(taken) :
              /\ taken[j].id = delivered[i].src
              /\ taken[j].type = "ClientMessage"
              /\ taken[j].wake = k}

C4_AtMostOnce ==
    \A k \in 1..MaxWakes :
        /\ Cardinality(AwakenedFor(k)) <= 1
        /\ AwakenedFor(k) # {} => WakeSent(k)

C4_WakeObserved ==
    /\ [](C4_AtMostOnce)
    /\ \A k \in 1..MaxWakes : WakeSent(k) ~> (AwakenedFor(k) # {} \/ is_closed)
    /\ (pc[1] = "peek" /\ Sends # {} /\ AwakenedFor(Cardinality(Sends)) = {})
          ~> pc[1] = "idle"

\* the thread blocked in XPeekEvent, was woken, and its call returned Awakened;
\* both wake-ups of the run have been observed and the window is not closed
C4_Witness ==
    /\ ~is_closed
    /\ \A k \in 1..MaxWakes : Cardinality(AwakenedFor(k)) = 1
    /\ call[1].mode = "wait" /\ call[1].peeked
    /\ pc[1] = "idle" /\ ret[1].ev = "Awakened"

(***************************************************************************)
(* C6.  A set_cursor_state(Normal) call made while the cursor state is     *)
(* Grab always makes exactly one native call, XUngrabPointer, leaves the   *)
(* state Normal and the pointer ungrabbed, and returns Ok; in particular   *)
(* so does the set_cursor_state(Normal) call that follows a                *)
(* set_cursor_state(Grab) from Normal whose XGrabPointer succeeded.        *)
(***************************************************************************)
C6_GrabRoundTrip ==
    /\ \A i \in 1..Len(chist) :
          chist[i].req = "Normal" /\ chist[i].before = "Grab" =>
             /\ chist[i].result = "Ok"
             /\ chist[i].natives = <<"XUngrabPointer">>
             /\ chist[i].after = "Normal"
             /\ ~chist[i].grabbed
    /\ \A i \in 1..(Len(chist) - 1) :
          /\ chist[i].req = "Grab" /\ chist[i].before = "Normal"
          /\ chist[i].result = "Ok"
          /\ chist[i + 1].req = "Normal"
          => /\ chist[i + 1].result = "Ok"
             /\ chist[i + 1].after = "Normal"
             /\ ~chist[i + 1].grabbed

(***************************************************************************)
(* C7.  A set_cursor_state call that asks for the state the window is      *)
(* already in (Normal while Normal, Grab while Grab) returns Ok, makes no  *)
(* native grab or ungrab call and leaves the cursor state as it was.       *)
(***************************************************************************)
C7_SameStateIsNoop ==
    \A i \in 1..Len(chist) :
        chist[i].req = chist[i].before =>
            /\ chist[i].result = "Ok"
            /\ chist[i].natives = <<>>
            /\ chist[i].after = chist[i].before

(***************************************************************************)
(* C10.  When the mode lines hold no mode of the requested dimensions:     *)
(* with a monitor requested, Window::new returns the mode-not-found error  *)
(* and holds nothing it acquired (the display connection is closed); with  *)
(* no monitor requested, it does not return that error and goes on.        *)
(***************************************************************************)
ModeNotFound == Err("Could not find a suitable graphics mode")

\* the mode lines were listed and none has the requested dimensions
NoModeMatches(t) == modes[t] # <<>> /\ best_mode[t] = -1

C10_ModeNotFoundReleasesAll ==
    \A t \in NewThreads :
        /\ NoModeMatches(t) /\ builder[t].monitor = "Some" =>
              /\ nresult[t] = ModeNotFound
              /\ held[t] = {}
        /\ NoModeMatches(t) /\ builder[t].monitor = "None" =>
              nresult[t] # ModeNotFound
        /\ nresult[t] = ModeNotFound => NoModeMatches(t)

(***************************************************************************)
(* C11.  Whenever Window::new returns an error, no Window exists and the   *)
(* call holds nothing any more: the display connection, the mode list and  *)
(* mode switch, the colormap, the native window, the input method and      *)
(* context, the rendering context and the current-context binding it had   *)
(* acquired have all been released or undone before the return.            *)
(***************************************************************************)
C11_FailureReleasesAll ==
    \A t \in NewThreads :
        nresult[t].tag = "Err" =>
            /\ npc[t] = "done"
            /\ target = "None"
            /\ held[t] = {}

(***************************************************************************)
(* C12.  Once Window::new is past its vsync step with vsync requested: in  *)
(* strict mode it has failed if neither SwapIntervalEXT nor                *)
(* SwapIntervalSGI is loaded, and has failed if SwapIntervalEXT is loaded  *)
(* and the interval queried afterwards is not 1; in non-strict mode it has *)
(* not failed; and when it has returned, no rendering context is current   *)
(* on the constructing thread.                                             *)
(***************************************************************************)
\* the call got its rendering context and its vsync step is behind it
PastVsync(t) == "context" \in held[t] /\ npc[t] \in {"assemble", "done"}

NoVsyncExtension == Err("Couldn't find any available vsync extension")
VsyncNotSet == Err("Couldn't setup vsync")

C12_Outcome(t) ==
    /\ builder[t].strict /\ extra[t] \cap {"SwapIntervalEXT", "SwapIntervalSGI"} = {}
          => nresult[t] = NoVsyncExtension
    /\ builder[t].strict /\ "SwapIntervalEXT" \in extra[t] /\ swap[t] # 1
          => nresult[t] = VsyncNotSet
    /\ ~builder[t].strict => nresult[t].tag # "Err"

C12_VsyncNegotiation ==
    \A t \in NewThreads :
        PastVsync(t) /\ builder[t].vsync =>
            /\ C12_Outcome(t)
            /\ npc[t] = "done" => "current" \notin held[t]

(***************************************************************************)
(* C13.  XWindow::drop does its steps once each and in this order: the     *)
(* proxy target is set to None, then the rendering context is destroyed,   *)
(* the saved display mode is restored (only if the window was fullscreen), *)
(* the input context is destroyed, the input method closed, the native     *)
(* window destroyed, the colormap freed and the connection closed.         *)
(* Nothing is released before the target is None, and nothing after the    *)
(* connection has been closed.                                             *)
(***************************************************************************)
C13_Expected ==
    IF is_fullscreen
    THEN <<"context", "mode", "ic", "im", "window", "colormap", "display">>
    ELSE <<"context", "ic", "im", "window", "colormap", "display">>

C13_State ==
    /\ Len(released) <= Len(C13_Expected)
    /\ released = SubSeq(C13_Expected, 1, Len(released))
    /\ released # <<>> => target = "None"
    /\ dpc = 0 => released = <<>> /\ target = "Some"
    /\ dpc = Len(DropSteps) => released = C13_Expected

C13_Step ==
    /\ released' # released =>
          /\ Len(released') = Len(released) + 1
          /\ SubSeq(released', 1, Len(released)) = released
          /\ target = "None"
    /\ (\E i \in 1..Len(released) : released[i] = "display") => released' = released
    /\ target' # target => target' = "None" /\ released = <<>>

C13_TeardownOrder == [](C13_State) /\ [][C13_Step]_vars

\* the drop of a fullscreen window has run to its end, while a proxy was used
C13_Witness ==
    /\ is_fullscreen
    /\ dpc = Len(DropSteps)
    /\ Len(released) = 7
    /\ nWakes > 0

(***************************************************************************)
(* C14.  A PollEventsIterator::next call never waits (it is never in       *)
(* XPeekEvent) and, its thread being scheduled, returns.  Started with an  *)
(* empty pending queue it takes native events one at a time; when it       *)
(* returns an event, that is the first portable event made from the native *)
(* events it took; when it returns None, XCheckMaskEvent has just found no  *)
(* event with a mask bit and XCheckTypedEvent no client message.           *)
(***************************************************************************)
\* ghost: the ids of the native events the current call of thread t took, in
\* the order taken (one thread pumping)
CallIds(t) ==
    [i \in 1..call[t].reads |-> taken[Len(taken) - call[t].reads + i].id]

\* the first portable event made from the native events the call took
FirstProduced(t) ==
    LET made == [i \in 1..call[t].reads |-> FromSrc(AllEvents, CallIds(t)[i])]
        some == {i \in 1..call[t].reads : made[i] # <<>>}
    IN  IF some = {} THEN NoEvent
        ELSE made[CHOOSE i \in some : \A j \in some : i <= j][1]

C14_NoWait ==
    \A t \in PumpThreads :
        call[t].mode = "poll" => pc[t] \in {"idle", "mask", "typed", "match", "configure"}

\* None is returned by the XCheckTypedEvent that finds no client message, which
\* is only called after an XCheckMaskEvent that found no event with a mask bit
C14_Returns(t) ==
    IF ret'[t] = NoEvent
    THEN /\ pc[t] = "typed"
         /\ FirstIndex(natq, ClientMessageType) = 0
         /\ natq' = natq
    ELSE ret'[t] = FirstProduced(t)'

C14_Step ==
    /\ Len(natq') >= Len(natq) - 1
    /\ \A t \in PumpThreads :
          /\ pc'[t] = "typed" /\ pc[t] # "typed" =>
                pc[t] = "mask" /\ FirstIndex(natq, MaskedTypes) = 0 /\ natq' = natq
          /\ call[t].mode = "poll" /\ pc[t] # "idle" /\ pc'[t] = "idle" =>
                C14_Returns(t)

C14_DrainTerminates ==
    /\ [](C14_NoWait)
    /\ [][C14_Step]_vars
    /\ (call[1].mode = "poll" /\ pc[1] # "idle") ~> pc[1] = "idle"

(***************************************************************************)
(* C15.  With one thread pumping, portable events are returned in the      *)
(* order in which the native events they were made from arrived: no event  *)
(* made from a later native event is returned before an event made from an *)
(* earlier one, whether it went through the pending queue or came from a   *)
(* client message.                                                         *)
(***************************************************************************)
C15_OrderPreserved ==
    \A i, j \in 1..Len(delivered) :
        i < j => delivered[i].src <= delivered[j].src

(***************************************************************************)
(* C16.  Once the closed flag is true, no step of the event pump, in the   *)
(* non-blocking drain or in the blocking wait, looks at or removes another *)
(* event of the native queue: nothing is taken by XCheckMaskEvent or       *)
(* XCheckTypedEvent and XPeekEvent is not called.                          *)
(***************************************************************************)
C16_Step ==
    is_closed =>
        /\ taken' = taken
        /\ natq' = natq \/ Len(natq') > Len(natq)
        /\ \A t \in PumpThreads : pc[t] = "peek" => pc'[t] = "peek"

C16_NoReadsOnceClosed == [][C16_Step]_vars

(***************************************************************************)
(* C17.  Every client message the pump has processed gave exactly one      *)
(* event: Closed, with the closed flag set, if its first payload word is   *)
(* the close atom, and Awakened otherwise; processing a message of the     *)
(* second kind leaves the closed flag as it was.  The zeroed message of    *)
(* wakeup_event_loop is always of the second kind.                         *)
(***************************************************************************)
C17_Classified(m) ==
    IF m.data0 = WmDeleteWindow
    THEN FromSrc(AllEvents, m.id) = <<Closed(m.id)>> /\ is_closed
    ELSE FromSrc(AllEvents, m.id) = <<Awakened(m.id)>>

C17_State ==
    \A j \in 1..Len(taken) :
        taken[j].type = "ClientMessage" =>
            /\ Processed(taken[j].id) => C17_Classified(taken[j])
            /\ taken[j].wake # 0 => taken[j].data0 # WmDeleteWindow

C17_Step ==
    \A t \in PumpThreads :
        /\ pc[t] = "match"
        /\ pc'[t] # "match"
        /\ xev[t].type = "ClientMessage"
        /\ xev[t].data0 # WmDeleteWindow
        => /\ is_closed' = is_closed
           /\ ret'[t] = Awakened(xev[t].id)

C17_ClientMessages == [](C17_State) /\ [][C17_Step]_vars

\* a close message, another server message and a wake-up message have all been
\* processed, the wake-up message while the window was still open
C17_Witness ==
    /\ \E j \in 1..Len(taken) :
          /\ taken[j].type = "ClientMessage" /\ taken[j].data0 = WmDeleteWindow
          /\ Processed(taken[j].id)
    /\ \E j \in 1..Len(taken) :
          /\ taken[j].type = "ClientMessage" /\ taken[j].wake = 0
          /\ taken[j].data0 # WmDeleteWindow
          /\ Processed(taken[j].id)
    /\ \E j \in 1..Len(taken) :
          /\ taken[j].type = "ClientMessage" /\ taken[j].wake # 0
          /\ Processed(taken[j].id)

(***************************************************************************)
(* C18.  Every call set_cursor_state(Grab) made while the state is Normal  *)
(* issues exactly one XGrabPointer and returns: Ok, with the state Grab,   *)
(* if the pointer was grabbed, and Err if the grab was refused.            *)
(***************************************************************************)
C18_GrabFromNormal ==
    \A i \in 1..Len(chist) :
        chist[i].req = "Grab" /\ chist[i].before = "Normal" =>
            /\ chist[i].natives = <<"XGrabPointer">>
            /\ chist[i].result \in {"Ok", "Err"}
            /\ chist[i].result = "Ok" <=> chist[i].grabbed
            /\ chist[i].result = "Ok" => chist[i].after = "Grab"

(***************************************************************************)
(* C19.  With threads constructing windows at the same time in a fresh     *)
(* process, XInitThreads and XSetErrorHandler are each called at most      *)
(* once in all, exactly once as soon as any thread is past                 *)
(* ensure_thread_init, and a thread reaches XOpenDisplay only after the    *)
(* thread that ran them has finished both.                                 *)
(***************************************************************************)
CallCount(name) ==
    LET n(t) == Cardinality({i \in 1..Len(nlog[t]) : nlog[t][i] = name})
    IN  n("n1") + n("n2")

PastThreadInit(t) == npc[t] \notin {"idle", "once", "init"}

C19_State ==
    /\ CallCount("XInitThreads") <= 1
    /\ CallCount("XSetErrorHandler") <= 1
    /\ \A t \in NewThreads :
          PastThreadInit(t) =>
              /\ once = "done"
              /\ CallCount("XInitThreads") = 1
              /\ CallCount("XSetErrorHandler") = 1

C19_Step ==
    \A t \in NewThreads :
        Len(nlog'[t]) > Len(nlog[t]) /\ nlog'[t][Len(nlog[t]) + 1] = "XOpenDisplay"
            => once = "done" /\ CallCount("XInitThreads") = 1

C19_InitOnce == [](C19_State) /\ [][C19_Step]_vars

\* both threads have called XOpenDisplay, and one of them never ran the closure
C19_Witness ==
    /\ \A t \in NewThreads : \E i \in 1..Len(nlog[t]) : nlog[t][i] = "XOpenDisplay"
    /\ \E t \in NewThreads : \A i \in 1..Len(nlog[t]) : nlog[t][i] # "XInitThreads"

(***************************************************************************)
(* C20.  With threads constructing windows at the same time, at most one   *)
(* thread is inside XOpenIM; the input-method lock is held exactly by the  *)
(* thread that is inside that step, so it is free again when the step was  *)
(* left with an input method or with the XOpenIM error; and a thread       *)
(* waiting for the lock always gets past it.                               *)
(***************************************************************************)
InsideOpenIM == {t \in NewThreads : npc[t] = "openim"}

C20_State ==
    /\ Cardinality(InsideOpenIM) <= 1
    /\ \A t \in NewThreads : imlock = t <=> npc[t] = "openim"
    /\ InsideOpenIM = {} => imlock = "free"

C20_Step ==
    \A t \in NewThreads :
        npc[t] = "openim" /\ npc'[t] # "openim" =>
            /\ imlock' = "free"
            /\ npc'[t] = "ic" \/ nresult'[t] = Err("XOpenIM failed")

C20_IMSerialized ==
    /\ [](C20_State)
    /\ [][C20_Step]_vars
    /\ \A t \in NewThreads : (npc[t] = "imlock") ~> (npc[t] # "imlock")

\* one thread has left the step with the XOpenIM error and the other is inside
\* XOpenIM after it
C20_Witness ==
    \E t, u \in NewThreads :
        /\ nresult[t] = Err("XOpenIM failed")
        /\ npc[u] = "openim"
        /\ imlock = u

(***************************************************************************)
(* C21.  With one thread pumping: a call of PollEventsIterator::next that  *)
(* starts with the pending queue non-empty, and a call of                  *)
(* WaitEventsIterator::next that starts with the pending queue non-empty   *)
(* on a window that is not closed, returns the head of the queue, removes  *)
(* that one event and takes nothing from the native queue.                 *)
(***************************************************************************)
C21_PopsHead(t) ==
    /\ pending' = Tail(pending)
    /\ ret'[t] = Head(pending)
    /\ delivered' = Append(delivered, Head(pending))
    /\ pc'[t] = "idle"
    /\ taken' = taken
    /\ call'[t].reads = 0
    /\ ~call'[t].peeked

C21_Step ==
    \A t \in PumpThreads :
        \* PollEventsIterator::next is entered
        /\ pc[t] = "idle" /\ call'[t] # call[t] /\ call'[t].mode = "poll"
           /\ pending # <<>>
           => C21_PopsHead(t)
        \* WaitEventsIterator::next is entered: the loop test, then the pop
        /\ pc[t] = "idle" /\ call'[t] # call[t] /\ call'[t].mode = "wait"
           /\ pending # <<>> /\ ~is_closed
           => pc'[t] = "wpop" /\ pending' = pending /\ taken' = taken
        \* (the first time round the loop: XPeekEvent has not been called yet)
        /\ pc[t] = "wpop" /\ pc'[t] = "wpop" => pending' = pending
        /\ pc[t] = "wpop" /\ pc'[t] # "wpop" /\ ~call[t].peeked /\ pending # <<>>
           => C21_PopsHead(t)

C21_PendingFirst == [][C21_Step]_vars

\* a blocking-wait call has returned a queued character while native events
\* were waiting in the queue
C21_Witness ==
    /\ pc[1] = "idle"
    /\ call[1].mode = "wait" /\ call[1].reads = 0
    /\ ret[1].ev = "ReceivedCharacter"
    /\ pending # <<>>
    /\ natq # <<>>

(***************************************************************************)
(* C22.  With several threads calling set_cursor_state on one window, the  *)
(* calls are serialized by the cursor_state mutex: at most one call is     *)
(* between its read of the state and its return, it holds the mutex the    *)
(* whole time, only that call changes the state or the native grab, and a  *)
(* call reads the state only when no other call is between its state      *)
(* update and the return of its native call.                               *)
(***************************************************************************)
InsideCursorCall == {c \in CursorThreads : cpc[c] \in {"match", "grab"}}

C22_State ==
    /\ Cardinality(InsideCursorCall) <= 1
    /\ \A c \in CursorThreads :
          /\ cursor_lock = c <=> c \in InsideCursorCall
          /\ cpc[c] = "match" => ccall[c].before = cursor_state

C22_Step ==
    /\ cursor_state' # cursor_state \/ pointer_grabbed' # pointer_grabbed
          => \E c \in InsideCursorCall : cursor_lock = c /\ cpc'[c] # cpc[c]
    /\ \A c \in CursorThreads :
          c \notin InsideCursorCall /\ cpc'[c] = "match" =>
              /\ InsideCursorCall = {}
              /\ ccall'[c].before = cursor_state

C22_CursorSerialized == [](C22_State) /\ [][C22_Step]_vars

\* one thread is inside XGrabPointer with the state already written, after the
\* other thread has completed a call
C22_Witness ==
    \E c, d \in CursorThreads :
        /\ c # d
        /\ cpc[c] = "grab" /\ cursor_state = "Grab" /\ ~pointer_grabbed
        /\ cpc[d] = "idle"
        /\ \E i \in 1..Len(chist) : chist[i].by = d

(***************************************************************************)
(* C23.  WindowProxy handles never own teardown.  Creating, cloning or     *)
(* dropping a handle changes neither the proxy target nor the progress of  *)
(* teardown, and takes no share of the XWindow; whatever handles are       *)
(* alive, dropping the Window is possible and starts teardown at once.     *)
(* The target is present exactly until teardown starts and is never set    *)
(* back to present.                                                        *)
(***************************************************************************)
C23_State ==
    /\ target = "Some" <=> dpc = 0
    /\ x_refs = IF dpc = 0 THEN 1 ELSE 0
    /\ dpc = 0 => ENABLED DropRevoke

C23_Step ==
    /\ proxies' # proxies =>
          /\ target' = target
          /\ dpc' = dpc
          /\ released' = released
          /\ x_refs' = x_refs
    /\ target' # target => target = "Some" /\ target' = "None"
    /\ x_refs' # x_refs => x_refs' = 0 /\ target' = "None" /\ dpc' = 1
    /\ dpc' # dpc => proxies' = proxies

C23_ProxiesDoNotOwn == [](C23_State) /\ [][C23_Step]_vars

\* teardown has run to its end while two handles are still alive
C23_Witness ==
    /\ dpc = Len(DropSteps)
    /\ Cardinality(proxies) >= 2
    /\ target = "None"

(***************************************************************************)
(* C24.  With one thread pumping: processing a KeymapNotify record, a      *)
(* ConfigureNotify with the cached dimensions, a button record with a code *)
(* other than 1..5, or a record of a type with no match arm returns no     *)
(* event for that record, leaves is_closed, current_size and the pending   *)
(* queue as they were, and the same call goes on to look for the next      *)
(* native event.                                                           *)
(***************************************************************************)
ArmTypes ==
    {"KeymapNotify", "ClientMessage", "ConfigureNotify", "Expose", "MotionNotify",
     "KeyPress", "KeyRelease", "ButtonPress", "ButtonRelease"}

C24_Silent(x) ==
    \/ x.type = "KeymapNotify"
    \/ x.type = "ConfigureNotify" /\ <<x.width, x.height>> = current_size
    \/ x.type \in {"ButtonPress", "ButtonRelease"} /\ x.button \notin 1..5
    \/ x.type \notin ArmTypes

C24_Step ==
    \A t \in PumpThreads :
        /\ xev[t] # NoXev
        /\ xev'[t] = NoXev
        /\ C24_Silent(xev[t])
        => /\ delivered' = delivered
           /\ ret' = ret
           /\ pending' = pending
           /\ is_closed' = is_closed
           /\ current_size' = current_size
           /\ call' = call
           /\ pc'[t] = "mask"

C24_State ==
    \A j \in 1..Len(taken) :
        /\ Processed(taken[j].id)
        /\ \/ taken[j].type \in {"KeymapNotify"}
           \/ taken[j].type \notin ArmTypes
           \/ taken[j].type \in {"ButtonPress", "ButtonRelease"}
              /\ taken[j].button \notin 1..5
        => FromSrc(AllEvents, taken[j].id) = <<>>

C24_SilentRecords == [](C24_State) /\ [][C24_Step]_vars

\* one call has taken a KeymapNotify and a ConfigureNotify with the cached
\* dimensions, neither gave an event, and the call is looking for the next
C24_Witness ==
    /\ pc[1] = "mask"
    /\ call[1].reads >= 2
    /\ \E j, k \in 1..Len(taken) :
          /\ taken[j].type = "KeymapNotify"
          /\ taken[k].type = "ConfigureNotify"
          /\ <<taken[k].width, taken[k].height>> = current_size
          /\ FromSrc(AllEvents, taken[j].id) = <<>>
          /\ FromSrc(AllEvents, taken[k].id) = <<>>

(***************************************************************************)
(* C25.  Whenever no set_cursor_state call is in progress, the recorded    *)
(* cursor state is Grab if and only if the window holds the pointer grab   *)
(* it obtained through set_cursor_state; so after a refused grab the       *)
(* recorded state is Normal.                                               *)
(***************************************************************************)
C25_StateMatchesGrab ==
    InsideCursorCall = {} => (cursor_state = "Grab" <=> pointer_grabbed)

(***************************************************************************)
(* C26.  For a caller that keeps calling WaitEventsIterator::next: every   *)
(* event put in the pending queue is eventually returned, and when a call  *)
(* returns None the pending queue is empty, also when the close message    *)
(* was processed while events were queued.                                 *)
(***************************************************************************)
WaitTerminated(t) == pc[t] = "idle" /\ call[t].mode = "wait" /\ ret[t] = NoEvent

C26_NothingStranded ==
    /\ [](WaitTerminated(1) => pending = <<>>)
    /\ \A k \in 1..MaxNative :
          (\E i \in 1..Len(pending) : pending[i].src = k)
              ~> (\E i \in 1..Len(delivered) :
                     delivered[i].src = k
                     /\ delivered[i].ev \in {"ReceivedCharacter", "MouseWheel"})

(***************************************************************************)
(* C27.  With two threads pumping the same window, in the merged stream of *)
(* returned events no Resized event carries the dimensions of the Resized  *)
(* event before it (two notifications of the same size taken by different  *)
(* threads do not both give Resized), and the cached size is always the    *)
(* dimensions of the last Resized event returned.                          *)
(***************************************************************************)
C27_ConcurrentDedup ==
    /\ \A i \in 2..Len(ResizedEvents) :
          DimsOf(ResizedEvents[i]) # DimsOf(ResizedEvents[i - 1])
    /\ current_size = LastResize

(***************************************************************************)
(* C28.  A call of WaitEventsIterator::next on an open window makes        *)
(* progress: whatever the native queue holds, the call eventually returns  *)
(* or is blocked in XPeekEvent on an empty queue.  No native event, such   *)
(* as one that XCheckMaskEvent and XCheckTypedEvent both pass over, keeps  *)
(* the loop going round for ever without blocking or returning.            *)
(***************************************************************************)
WaitBlocked(t) == pc[t] = "peek" /\ natq = <<>>

C28_WaitProgress ==
    (call[1].mode = "wait" /\ pc[1] # "idle") ~> (pc[1] = "idle" \/ WaitBlocked(1))

==========================================================================
